---- MODULE Spec2Model ----
(***************************************************************************)
(* Order lifecycle of kafka-order-service: the Order aggregate             *)
(* (internal/domain/entities), the PostgreSQL order repository, the Kafka  *)
(* producer and the CreateOrder / UpdateOrderStatus / GetOrder use cases.  *)
(***************************************************************************)
EXTENDS Integers, Sequences, FiniteSets, TLC

VARIABLES
    order,      \* the in-memory *entities.Order the aggregate methods act on
    ret,        \* the last aggregate call: its arguments and what it returned
    now,        \* the last value time.Now() / NOW() returned
    nextUuid,   \* the next value uuid.New() returns
    store,      \* the database: order id -> its orders row, item rows and address rows
    proc,       \* each request goroutine: where it is in Execute, and its locals
    result,     \* what the last Execute to return gave its caller
    transport,  \* the messages the Kafka writer accepted, in order
    publishErrors, \* the order ids logged with "Failed to publish order created event"
    execs,      \* the number of use-case executions started
    consumer    \* the Kafka consumer: where Consumer.Start is, and what it did so far

aggVars == <<order, ret>>

ucVars == <<store, proc, result, transport, publishErrors, execs>>

vars == <<order, ret, now, nextUuid, store, proc, result, transport, publishErrors, execs,
          consumer>>

(***************************************************************************)
(* float64.  A finite float64 is a sign and a magnitude; the magnitude is  *)
(* an integer count of 2^-56, kept in three limbs of 24 bits (least        *)
(* significant first), so every value below is held exactly.  Each         *)
(* arithmetic operation of the code computes the exact result and rounds   *)
(* it to MantBits significant bits, ties to even (IEEE 754).               *)
(***************************************************************************)
MantBits == 53

LimbBase == 2^24

MagZero == <<0, 0, 0>>

Carry(t) ==
    LET s1 == t[2] + (t[1] \div LimbBase)
    IN  <<t[1] % LimbBase, s1 % LimbBase, t[3] + (s1 \div LimbBase)>>

MagAdd(a, b) == Carry(<<a[1] + b[1], a[2] + b[2], a[3] + b[3]>>)

MagMul(a, q) == Carry(<<a[1] * q, a[2] * q, a[3] * q>>)

MagLess(a, b) ==
    \/ a[3] < b[3]
    \/ a[3] = b[3] /\ a[2] < b[2]
    \/ a[3] = b[3] /\ a[2] = b[2] /\ a[1] < b[1]

\* a - b for a >= b
MagSub(a, b) ==
    LET d0 == a[1] - b[1]
        b0 == IF d0 < 0 THEN 1 ELSE 0
        d1 == a[2] - b[2] - b0
        b1 == IF d1 < 0 THEN 1 ELSE 0
    IN  <<d0 + b0 * LimbBase, d1 + b1 * LimbBase, a[3] - b[3] - b1>>

RECURSIVE BitLen(_)
BitLen(x) == IF x = 0 THEN 0 ELSE 1 + BitLen(x \div 2)

MagBitLen(a) ==
    IF a[3] > 0 THEN 48 + BitLen(a[3])
    ELSE IF a[2] > 0 THEN 24 + BitLen(a[2])
    ELSE BitLen(a[1])

\* round to nearest, ties to even, at MantBits significant bits
RoundToMant(a) ==
    LET h == MagBitLen(a)
    IN  IF h <= MantBits THEN a
        ELSE LET unit == 2^(h - MantBits)
                 rem  == a[1] % unit
                 odd  == (a[1] \div unit) % 2 = 1
                 up   == rem * 2 > unit \/ (rem * 2 = unit /\ odd)
             IN  Carry(<<a[1] - rem + (IF up THEN unit ELSE 0), a[2], a[3]>>)

Abs(q) == IF q < 0 THEN 0 - q ELSE q

\* -0.0 and 0.0 compare equal in Go; both are written with neg = FALSE
MkFloat(neg, mag) == [neg |-> neg /\ mag # MagZero, mag |-> mag]

FZero == MkFloat(FALSE, MagZero)

\* the exact (real-number) sum and product, before any rounding
ExactAdd(x, y) ==
    IF x.neg = y.neg THEN MkFloat(x.neg, MagAdd(x.mag, y.mag))
    ELSE IF MagLess(x.mag, y.mag) THEN MkFloat(y.neg, MagSub(y.mag, x.mag))
    ELSE MkFloat(x.neg, MagSub(x.mag, y.mag))

ExactMulInt(x, q) == MkFloat(x.neg # (q < 0), MagMul(x.mag, Abs(q)))

\* the float64 nearest to an exact value
RoundFloat(x) == MkFloat(x.neg, RoundToMant(x.mag))

\* NaN: unordered, unequal to everything, absorbing in + and *
F_NaN == [neg |-> FALSE, mag |-> MagZero, nan |-> TRUE]

IsNaN(x) == "nan" \in DOMAIN x

\* x + y on float64
FAdd(x, y) == IF IsNaN(x) \/ IsNaN(y) THEN F_NaN ELSE RoundFloat(ExactAdd(x, y))

\* x * float64(q) on float64
FMulInt(x, q) == IF IsNaN(x) THEN F_NaN ELSE RoundFloat(ExactMulInt(x, q))

\* x <= 0
FLeqZero(x) == ~IsNaN(x) /\ (x.neg \/ x.mag = MagZero)

\* x != y
FNeq(x, y) == IsNaN(x) \/ IsNaN(y) \/ x # y

\* the float64 values of the decimal literals 0.0, 0.1, 0.2, 0.5, 10.99 and -0.5
F_0_0 == FZero
F_0_1 == MkFloat(FALSE, <<10066330, 10066329, 25>>)
F_0_2 == MkFloat(FALSE, <<3355444, 3355443, 51>>)
F_0_5 == MkFloat(FALSE, <<0, 0, 128>>)
F_10_99 == MkFloat(FALSE, <<671104, 7381975, 2813>>)
F_21_98 == MkFloat(FALSE, <<1342208, 14763950, 5626>>)
F_m0_5 == MkFloat(TRUE, <<0, 0, 128>>)

(***************************************************************************)
(* The Order aggregate (internal/domain/entities/order-entity.go).         *)
(***************************************************************************)
OrderStatusPending    == "pending"
OrderStatusConfirmed  == "confirmed"
OrderStatusProcessing == "processing"
OrderStatusShipped    == "shipped"
OrderStatusDelivered  == "delivered"
OrderStatusCancelled  == "cancelled"
OrderStatusRefunded   == "refunded"

Statuses ==
    {OrderStatusPending, OrderStatusConfirmed, OrderStatusProcessing,
     OrderStatusShipped, OrderStatusDelivered, OrderStatusCancelled,
     OrderStatusRefunded}

\* the nil error, and the errors of the domain (their Type and fields)
NoError == [Type |-> "nil", Message |-> <<>>, FromStatus |-> "", ToStatus |-> ""]

NewValidationError(msg) ==
    [Type |-> "VALIDATION_ERROR", Message |-> msg, FromStatus |-> "", ToStatus |-> ""]

\* a missing order reported as a plain domain error
NewOrderNotFoundErrorUntyped(id) ==
    [Type |-> "DOMAIN_ERROR", Message |-> <<"order with ID", "not found">>,
     FromStatus |-> "", ToStatus |-> ""]

NewOrderNotFoundError(id) ==
    [Type |-> "ORDER_NOT_FOUND", Message |-> <<"order with ID", "not found">>,
     FromStatus |-> "", ToStatus |-> ""]

\* fmt.Errorf(prefix + ": %w", err)
Wrap(prefix, err) == [err EXCEPT !.Message = <<prefix>> \o @]

\* the error built with its two statuses exchanged
NewInvalidStatusTransitionErrorSwapped(from, to) ==
    [Type |-> "INVALID_STATUS_TRANSITION",
     Message |-> <<"cannot transition from", to, "to", from>>,
     FromStatus |-> to, ToStatus |-> from]

NewInvalidStatusTransitionError(from, to) ==
    [Type |-> "INVALID_STATUS_TRANSITION",
     Message |-> <<"cannot transition from", from, "to", to>>,
     FromStatus |-> from, ToStatus |-> to]

NilUuid == 0

\* a nil *Address
NilAddress ==
    [ID |-> NilUuid, OrderID |-> NilUuid, Type |-> "nil", Street |-> "", City |-> "",
     State |-> "", Country |-> "", ZipCode |-> ""]

\* an e-mail address is the sequence of its characters
EmailTest == <<"t", "@", "e", "x", ".", "c", "o">>

\* a constructor that leaves the currency empty
NewOrderNoCurrency(id, customerID, email, t) ==
    [ID          |-> id,
     CustomerID  |-> customerID,
     Email       |-> email,
     Status      |-> OrderStatusPending,
     TotalAmount |-> FZero,
     Currency    |-> "",
     Items       |-> <<>>,
     CreatedAt   |-> t,
     UpdatedAt   |-> t,
     ShippingAddress |-> NilAddress,
     BillingAddress  |-> NilAddress,
     Metadata    |-> <<>>]

NewOrder(id, customerID, email, t) ==
    [ID          |-> id,
     CustomerID  |-> customerID,
     Email       |-> email,
     Status      |-> OrderStatusPending,
     TotalAmount |-> FZero,
     Currency    |-> "USD",
     Items       |-> <<>>,
     CreatedAt   |-> t,
     UpdatedAt   |-> t,
     ShippingAddress |-> NilAddress,
     BillingAddress  |-> NilAddress,
     Metadata    |-> <<>>]

\* a table that reopens a cancelled order
validTransitionsReopen ==
    [s \in Statuses |->
        CASE s = OrderStatusPending    -> {OrderStatusConfirmed, OrderStatusCancelled}
          [] s = OrderStatusConfirmed  -> {OrderStatusProcessing, OrderStatusCancelled}
          [] s = OrderStatusProcessing -> {OrderStatusShipped, OrderStatusCancelled}
          [] s = OrderStatusShipped    -> {OrderStatusDelivered}
          [] s = OrderStatusDelivered  -> {OrderStatusRefunded}
          [] s = OrderStatusCancelled  -> {OrderStatusPending}
          [] s = OrderStatusRefunded   -> {}]

\* a table that lets a refunded order go back to delivered
validTransitionsRefundReturns ==
    [s \in Statuses |->
        CASE s = OrderStatusPending    -> {OrderStatusConfirmed, OrderStatusCancelled}
          [] s = OrderStatusConfirmed  -> {OrderStatusProcessing, OrderStatusCancelled}
          [] s = OrderStatusProcessing -> {OrderStatusShipped, OrderStatusCancelled}
          [] s = OrderStatusShipped    -> {OrderStatusDelivered}
          [] s = OrderStatusDelivered  -> {OrderStatusRefunded}
          [] s = OrderStatusCancelled  -> {}
          [] s = OrderStatusRefunded   -> {OrderStatusDelivered}]

validTransitions ==
    [s \in Statuses |->
        CASE s = OrderStatusPending    -> {OrderStatusConfirmed, OrderStatusCancelled}
          [] s = OrderStatusConfirmed  -> {OrderStatusProcessing, OrderStatusCancelled}
          [] s = OrderStatusProcessing -> {OrderStatusShipped, OrderStatusCancelled}
          [] s = OrderStatusShipped    -> {OrderStatusDelivered}
          [] s = OrderStatusDelivered  -> {OrderStatusRefunded}
          [] s = OrderStatusCancelled  -> {}
          [] s = OrderStatusRefunded   -> {}]

\* a check that also lets a shipped order be cancelled
canTransitionToShippedCancel(o, newStatus) ==
    \/ o.Status \in DOMAIN validTransitions /\ newStatus \in validTransitions[o.Status]
    \/ o.Status = OrderStatusShipped /\ newStatus = OrderStatusCancelled

canTransitionTo(o, newStatus) ==
    IF o.Status \notin DOMAIN validTransitions THEN FALSE
    ELSE newStatus \in validTransitions[o.Status]

\* Order.IsActive
IsActive(o) ==
    /\ o.Status # OrderStatusCancelled
    /\ o.Status # OrderStatusRefunded
    /\ o.Status # OrderStatusDelivered

\* a finality that follows the transition table: delivered is not final
IsFinalTerminalOnly(o) ==
    \/ o.Status = OrderStatusCancelled
    \/ o.Status = OrderStatusRefunded

\* Order.IsFinal
IsFinal(o) ==
    \/ o.Status = OrderStatusCancelled
    \/ o.Status = OrderStatusRefunded
    \/ o.Status = OrderStatusDelivered

\* total := 0.0; for _, item := range o.Items { total += item.Total }
RECURSIVE SumTotals(_)
SumTotals(items) ==
    IF items = <<>> THEN FZero
    ELSE FAdd(SumTotals(SubSeq(items, 1, Len(items) - 1)), items[Len(items)].Total)

calculateTotal(o) == [o EXCEPT !.TotalAmount = SumTotals(o.Items)]

\* Order.UpdateStatus: the order after the call, and the error returned
UpdateStatusOrder(o, newStatus, t) ==
    IF ~canTransitionTo(o, newStatus) THEN o
    ELSE [o EXCEPT !.Status = newStatus, !.UpdatedAt = t]

\* the refusal of a transition not reported
UpdateStatusErrNever(o, newStatus) == NoError

UpdateStatusErr(o, newStatus) ==
    IF ~canTransitionTo(o, newStatus)
    THEN NewInvalidStatusTransitionError(o.Status, newStatus)
    ELSE NoError

\* Order.AddItem: the order after the call (the method returns nothing)
AddItemOrder(o, itemID, productID, name, price, quantity, t) ==
    LET item == [ID        |-> itemID,
                 OrderID   |-> o.ID,
                 ProductID |-> productID,
                 Name      |-> name,
                 Price     |-> price,
                 Quantity  |-> quantity,
                 Total     |-> FMulInt(price, quantity)]
    IN  [calculateTotal([o EXCEPT !.Items = Append(o.Items, item)])
            EXCEPT !.UpdatedAt = t]

\* the index of the first item with this id, 0 when there is none
FirstIndex(items, itemID) ==
    IF \E i \in 1..Len(items) : items[i].ID = itemID
    THEN CHOOSE i \in 1..Len(items) :
            /\ items[i].ID = itemID
            /\ \A j \in 1..(i - 1) : items[j].ID # itemID
    ELSE 0

\* Order.RemoveItem: the order after the call, and the boolean returned
RemoveItemFound(o, itemID) == FirstIndex(o.Items, itemID) # 0

\* a removal that recomputes and stamps the order whether an item matched or not
RemoveItemOrderAlwaysTouch(o, itemID, t) ==
    LET i == FirstIndex(o.Items, itemID)
        kept == IF i = 0 THEN o.Items
                ELSE SubSeq(o.Items, 1, i - 1) \o SubSeq(o.Items, i + 1, Len(o.Items))
    IN  [calculateTotal([o EXCEPT !.Items = kept]) EXCEPT !.UpdatedAt = t]

RemoveItemOrder(o, itemID, t) ==
    LET i == FirstIndex(o.Items, itemID)
    IN  IF i = 0 THEN o
        ELSE [calculateTotal([o EXCEPT !.Items =
                  SubSeq(o.Items, 1, i - 1) \o SubSeq(o.Items, i + 1, Len(o.Items))])
                EXCEPT !.UpdatedAt = t]

\* Order.SetShippingAddress / Order.SetBillingAddress
SetShippingAddress(o, address, id, t) ==
    [o EXCEPT !.ShippingAddress =
                  [address EXCEPT !.ID = id, !.OrderID = o.ID, !.Type = "shipping"],
              !.UpdatedAt = t]

SetBillingAddress(o, address, id, t) ==
    [o EXCEPT !.BillingAddress =
                  [address EXCEPT !.ID = id, !.OrderID = o.ID, !.Type = "billing"],
              !.UpdatedAt = t]

RECURSIVE SumQuantities(_)
SumQuantities(items) ==
    IF items = <<>> THEN 0
    ELSE SumQuantities(SubSeq(items, 1, Len(items) - 1)) + items[Len(items)].Quantity

GetItemCount(o) == SumQuantities(o.Items)

\* an event that counts the order's lines instead of their quantities
ToEventCountsLines(o, eventType, eventID, t) ==
    [EventType   |-> eventType,
     EventID     |-> eventID,
     OrderID     |-> o.ID,
     CustomerID  |-> o.CustomerID,
     Status      |-> o.Status,
     TotalAmount |-> o.TotalAmount,
     Currency    |-> o.Currency,
     Timestamp   |-> t,
     Data        |-> [email |-> o.Email, item_count |-> Len(o.Items)]]

\* Order.ToEvent
ToEvent(o, eventType, eventID, t) ==
    [EventType   |-> eventType,
     EventID     |-> eventID,
     OrderID     |-> o.ID,
     CustomerID  |-> o.CustomerID,
     Status      |-> o.Status,
     TotalAmount |-> o.TotalAmount,
     Currency    |-> o.Currency,
     Timestamp   |-> t,
     Data        |-> [email |-> o.Email, item_count |-> GetItemCount(o)]]

\* the decimal digits of an index, as fmt prints them
IndexText(i) == <<"0", "1", "2", "3", "4", "5", "6", "7", "8", "9">>[i + 1]

\* OrderItem.Validate
ItemValidate(item) ==
    IF item.ID = NilUuid THEN NewValidationError(<<"item ID cannot be empty">>)
    ELSE IF item.ProductID = NilUuid
        THEN NewValidationError(<<"product ID cannot be empty">>)
    ELSE IF item.Name = "" THEN NewValidationError(<<"item name cannot be empty">>)
    ELSE IF FLeqZero(item.Price)
        THEN NewValidationError(<<"item price must be greater than zero">>)
    ELSE IF item.Quantity <= 0
        THEN NewValidationError(<<"item quantity must be greater than zero">>)
    ELSE IF FNeq(item.Total, FMulInt(item.Price, item.Quantity))
        THEN NewValidationError(<<"item total doesn't match price * quantity">>)
    ELSE NoError

\* the index of the first item that fails its validation, 0 when none does
FirstInvalidItem(items) ==
    IF \E i \in 1..Len(items) : ItemValidate(items[i]) # NoError
    THEN CHOOSE i \in 1..Len(items) :
            /\ ItemValidate(items[i]) # NoError
            /\ \A j \in 1..(i - 1) : ItemValidate(items[j]) = NoError
    ELSE 0

\* a validation that looks at the items before the total
ValidateItemsFirst(o) ==
    IF o.ID = NilUuid THEN NewValidationError(<<"order ID cannot be empty">>)
    ELSE IF o.CustomerID = NilUuid
        THEN NewValidationError(<<"customer ID cannot be empty">>)
    ELSE IF o.Email = <<>> THEN NewValidationError(<<"email cannot be empty">>)
    ELSE IF Len(o.Items) = 0
        THEN NewValidationError(<<"order must have at least one item">>)
    ELSE LET i == FirstInvalidItem(o.Items)
         IN  IF i # 0
             THEN NewValidationError(<<"item", IndexText(i - 1)>>
                                     \o ItemValidate(o.Items[i]).Message)
             ELSE IF FLeqZero(o.TotalAmount)
                 THEN NewValidationError(<<"total amount must be greater than zero">>)
             ELSE NoError

\* Order.Validate
Validate(o) ==
    IF o.ID = NilUuid THEN NewValidationError(<<"order ID cannot be empty">>)
    ELSE IF o.CustomerID = NilUuid
        THEN NewValidationError(<<"customer ID cannot be empty">>)
    ELSE IF o.Email = <<>> THEN NewValidationError(<<"email cannot be empty">>)
    ELSE IF Len(o.Items) = 0
        THEN NewValidationError(<<"order must have at least one item">>)
    ELSE IF FLeqZero(o.TotalAmount)
        THEN NewValidationError(<<"total amount must be greater than zero">>)
    ELSE LET i == FirstInvalidItem(o.Items)
         IN  IF i # 0
             THEN NewValidationError(<<"item", IndexText(i - 1)>>
                                     \o ItemValidate(o.Items[i]).Message)
             ELSE NoError

(***************************************************************************)
(* float64 <-> DECIMAL(10,2).  A DECIMAL(10,2) column holds a whole number *)
(* of cents.  lib/pq sends a float64 as its shortest decimal text and      *)
(* PostgreSQL rounds that to two places, half away from zero; reading      *)
(* parses the column's text to the nearest float64.  For the amounts used  *)
(* here (sums and products of prices given in cents) rounding the shortest *)
(* text and rounding the exact value give the same cents.                  *)
(***************************************************************************)
ToCents(x) ==
    LET h  == MagMul(x.mag, 100)
        up == ~MagLess(<<h[1], h[2], h[3] % 256>>, <<0, 0, 128>>)
        c  == (h[3] \div 256) + (IF up THEN 1 ELSE 0)
    IN  IF x.neg THEN 0 - c ELSE c

\* the float64 nearest to c / 100 (c = 0 or |c| >= 7, so that it lies on the grid)
FromCents(c) ==
    LET n2 == Abs(c) * 256
        t1 == (n2 % 100) * LimbBase
        t0 == (t1 % 100) * LimbBase
        q  == <<t0 \div 100, t1 \div 100, n2 \div 100>>
        r  == t0 % 100
        h  == MagBitLen(q)
        unit == 2^(h - MantBits)
        rem  == q[1] % unit
        odd  == (q[1] \div unit) % 2 = 1
        twice == (rem * 100 + r) * 2
        up   == twice > unit * 100 \/ (twice = unit * 100 /\ odd)
    IN  IF c = 0 THEN FZero
        ELSE MkFloat(c < 0, Carry(<<q[1] - rem + (IF up THEN unit ELSE 0), q[2], q[3]>>))

(***************************************************************************)
(* The PostgreSQL repository (OrderRepository) and the schema's triggers.  *)
(***************************************************************************)
ItemRow(item) ==
    [ID |-> item.ID, OrderID |-> item.OrderID, ProductID |-> item.ProductID,
     Name |-> item.Name, PriceCents |-> ToCents(item.Price),
     Quantity |-> item.Quantity, TotalCents |-> ToCents(item.Total)]

\* calculate_order_total over the first k item rows inserted
RECURSIVE RowCentsSum(_, _)
RowCentsSum(rows, k) ==
    IF k = 0 THEN 0 ELSE RowCentsSum(rows, k - 1) + rows[k].TotalCents

\* ABS(NEW.total_amount - calculated_total) > 0.01 raises
TotalMatches(totalCents, calculatedCents) == Abs(totalCents - calculatedCents) <= 1

ItemRows(o) == [i \in 1..Len(o.Items) |-> ItemRow(o.Items[i])]

\* check_order_total_trigger is deferred: at commit it runs once for every
\* queued version of the orders row (the inserted header, then the row as
\* update_order_total_on_item_change rewrote it after each item), each time
\* against the sum of all the item rows then present.
CreateTotalCheckPasses(o) ==
    LET rows  == ItemRows(o)
        final == RowCentsSum(rows, Len(rows))
    IN  /\ TotalMatches(ToCents(o.TotalAmount), final)
        /\ \A k \in 1..Len(rows) : TotalMatches(RowCentsSum(rows, k), final)

\* the rows OrderRepository.Create leaves once its transaction commits at t
CreatedRow(o, t) ==
    LET rows == ItemRows(o)
    IN  [CustomerID |-> o.CustomerID,
         Email      |-> o.Email,
         Status     |-> o.Status,
         TotalCents |-> IF rows = <<>> THEN ToCents(o.TotalAmount)
                        ELSE RowCentsSum(rows, Len(rows)),
         Currency   |-> o.Currency,
         CreatedAt  |-> o.CreatedAt,
         UpdatedAt  |-> IF rows = <<>> THEN o.UpdatedAt ELSE t,
         Items      |-> rows,
         ShippingAddress |-> o.ShippingAddress,
         BillingAddress  |-> o.BillingAddress]

\* the collation order of the item names in use
NameRank(name) ==
    CASE name = "" -> 0 [] name = "Gadget" -> 1 [] name = "Widget" -> 2 [] OTHER -> 3

\* ORDER BY name (rows of equal name in insertion order)
RECURSIVE SortByName(_)
SortByName(rows) ==
    IF rows = <<>> THEN <<>>
    ELSE LET last == rows[Len(rows)]
             head == SortByName(SubSeq(rows, 1, Len(rows) - 1))
             k    == Cardinality({i \in 1..Len(head) :
                                    NameRank(head[i].Name) <= NameRank(last.Name)})
         IN  SubSeq(head, 1, k) \o <<last>> \o SubSeq(head, k + 1, Len(head))

ItemOfRow(row) ==
    [ID |-> row.ID, OrderID |-> row.OrderID, ProductID |-> row.ProductID,
     Name |-> row.Name, Price |-> FromCents(row.PriceCents),
     Quantity |-> row.Quantity, Total |-> FromCents(row.TotalCents)]

\* the aggregate OrderRepository.GetByID scans from the rows it read
OrderOfRow(id, row) ==
    LET items == SortByName(row.Items)
    IN  [ID          |-> id,
         CustomerID  |-> row.CustomerID,
         Email       |-> row.Email,
         Status      |-> row.Status,
         TotalAmount |-> FromCents(row.TotalCents),
         Currency    |-> row.Currency,
         Items       |-> [i \in 1..Len(items) |-> ItemOfRow(items[i])],
         CreatedAt   |-> row.CreatedAt,
         UpdatedAt   |-> row.UpdatedAt,
         ShippingAddress |-> row.ShippingAddress,
         BillingAddress  |-> row.BillingAddress,
         Metadata    |-> <<>>]

\* OrderRepository.GetByID on a stored id, its three queries seeing one state
GetByIDOrder(id) == OrderOfRow(id, store[id])

\* OrderRepository.Update's statement on a stored id, run at t: the header
\* columns are overwritten and update_orders_updated_at stamps the row
\* an UPDATE that also writes created_at
UpdatedRowTouchesCreatedAt(row, o, t) ==
    [row EXCEPT !.CustomerID = o.CustomerID,
                !.Email      = o.Email,
                !.Status     = o.Status,
                !.TotalCents = ToCents(o.TotalAmount),
                !.Currency   = o.Currency,
                !.CreatedAt  = t,
                !.UpdatedAt  = t]

UpdatedRow(row, o, t) ==
    [row EXCEPT !.CustomerID = o.CustomerID,
                !.Email      = o.Email,
                !.Status     = o.Status,
                !.TotalCents = ToCents(o.TotalAmount),
                !.Currency   = o.Currency,
                !.UpdatedAt  = t]

\* the deferred total check of that statement's own transaction
UpdateTotalCheckPasses(row, o) ==
    TotalMatches(ToCents(o.TotalAmount), RowCentsSum(row.Items, Len(row.Items)))

\* a storage failure wrapped by the repository (connection, constraint, commit)
StorageError(what) ==
    [Type |-> "STORAGE_ERROR", Message |-> <<what>>, FromStatus |-> "", ToStatus |-> ""]

(***************************************************************************)
(* The Kafka producer (Producer.PublishOrderEvent).                        *)
(***************************************************************************)
\* uuid.UUID.String() and time.Time.Format(time.RFC3339): the text of a value
UuidString(u) == <<"uuid", u>>

Rfc3339(t) == <<"rfc3339", t>>

\* the message as it was keyed by the customer
MessageOfKeyedByCustomer(event) ==
    [Key     |-> UuidString(event.CustomerID),
     Value   |-> event,
     Headers |-> ("event-type" :> <<event.EventType>>)
                 @@ ("event-id" :> UuidString(event.EventID))
                 @@ ("customer-id" :> UuidString(event.CustomerID))
                 @@ ("content-type" :> <<"application/json">>)
                 @@ ("timestamp" :> Rfc3339(event.Timestamp)),
     Time    |-> event.Timestamp]

\* the kafka.Message built for an event (lines 55-67 and 91-103)
MessageOf(event) ==
    [Key     |-> UuidString(event.OrderID),
     Value   |-> event,
     Headers |-> ("event-type" :> <<event.EventType>>)
                 @@ ("event-id" :> UuidString(event.EventID))
                 @@ ("customer-id" :> UuidString(event.CustomerID))
                 @@ ("content-type" :> <<"application/json">>)
                 @@ ("timestamp" :> Rfc3339(event.Timestamp)),
     Time    |-> event.Timestamp]

\* json.Marshal refuses a NaN amount
MarshalFails(event) == IsNaN(event.TotalAmount)

MarshalError ==
    [Type |-> "MARSHAL_ERROR", Message |-> <<"failed to marshal event">>,
     FromStatus |-> "", ToStatus |-> ""]

PublishError ==
    [Type |-> "PUBLISH_ERROR", Message |-> <<"failed to write message to kafka">>,
     FromStatus |-> "", ToStatus |-> ""]

(***************************************************************************)
(* The use cases (internal/usecase).                                       *)
(***************************************************************************)
Count(seq, ch) == Cardinality({i \in 1..Len(seq) : seq[i] = ch})

\* validateEmail: at least 5 bytes, exactly one "@", and after it at least
\* 3 bytes with a "." among them
validateEmail(email) ==
    /\ Len(email) >= 5
    /\ Count(email, "@") = 1
    /\ LET at     == CHOOSE i \in 1..Len(email) : email[i] = "@"
           domain == SubSeq(email, at + 1, Len(email))
       IN  Len(domain) >= 3 /\ Count(domain, ".") >= 1

\* the first request item that fails, as <<index, message>>; <<0, "">> when none does
CreateItemProblem(item) ==
    IF item.ProductID = NilUuid THEN "product_id is required"
    ELSE IF item.Name = "" THEN "name is required"
    ELSE IF FLeqZero(item.Price) THEN "price must be greater than 0"
    ELSE IF item.Quantity <= 0 THEN "quantity must be greater than 0"
    ELSE ""

\* CreateOrderUseCase.validateRequest
CreateValidateRequest(req) ==
    IF req.CustomerID = NilUuid THEN NewValidationError(<<"customer_id is required">>)
    ELSE IF req.Email = <<>> THEN NewValidationError(<<"email is required">>)
    ELSE IF ~validateEmail(req.Email) THEN NewValidationError(<<"invalid email format">>)
    ELSE IF Len(req.Items) = 0
        THEN NewValidationError(<<"at least one item is required">>)
    ELSE IF \E i \in 1..Len(req.Items) : CreateItemProblem(req.Items[i]) # ""
        THEN LET i == CHOOSE k \in 1..Len(req.Items) :
                        /\ CreateItemProblem(req.Items[k]) # ""
                        /\ \A j \in 1..(k - 1) : CreateItemProblem(req.Items[j]) = ""
             IN  NewValidationError(<<"item", IndexText(i - 1),
                                      CreateItemProblem(req.Items[i])>>)
    ELSE NoError

\* UpdateOrderStatusUseCase.validateRequest
UpdateValidateRequest(req) ==
    IF req.OrderID = NilUuid THEN NewValidationError(<<"order_id is required">>)
    ELSE IF req.NewStatus = "" THEN NewValidationError(<<"new_status is required">>)
    ELSE IF req.NewStatus \notin Statuses
        THEN NewValidationError(<<"invalid status", req.NewStatus>>)
    ELSE NoError

\* GetOrderUseCase.validateRequest
GetValidateRequest(req) ==
    IF req.OrderID = NilUuid THEN NewValidationError(<<"order_id is required">>)
    ELSE NoError

\* CreateOrderUseCase.Execute up to the final validation: the aggregate built
\* from the request.  uuid.New() gives id, id+1, ...; time.Now() gives t, t+1, ...
RECURSIVE AddRequestItems(_, _, _, _)
AddRequestItems(o, items, id, t) ==
    IF items = <<>> THEN o
    ELSE LET n    == Len(items)
             item == items[n]
         IN  AddItemOrder(AddRequestItems(o, SubSeq(items, 1, n - 1), id, t),
                          id + n - 1, item.ProductID, item.Name, item.Price,
                          item.Quantity, t + n - 1)

AddressOf(r) ==
    [NilAddress EXCEPT !.Street = r.Street, !.City = r.City, !.State = r.State,
                       !.Country = r.Country, !.ZipCode = r.ZipCode]

\* the uuids and the clock readings the construction consumes
BuildUuids(req) ==
    1 + Len(req.Items) + (IF req.ShippingAddress # NilAddress THEN 1 ELSE 0)
      + (IF req.BillingAddress # NilAddress THEN 1 ELSE 0)

BuildOrder(req, id, t) ==
    LET n  == Len(req.Items)
        o0 == NewOrder(id, req.CustomerID, req.Email, t)
        o1 == IF req.Currency # "" THEN [o0 EXCEPT !.Currency = req.Currency] ELSE o0
        o2 == [o1 EXCEPT !.Metadata = req.Metadata]
        o3 == AddRequestItems(o2, req.Items, id + 1, t + 1)
        hasShip == req.ShippingAddress # NilAddress
        o4 == IF hasShip
              THEN SetShippingAddress(o3, AddressOf(req.ShippingAddress),
                                      id + 1 + n, t + 1 + n)
              ELSE o3
        k  == IF hasShip THEN 1 ELSE 0
    IN  IF req.BillingAddress # NilAddress
        THEN SetBillingAddress(o4, AddressOf(req.BillingAddress),
                               id + 1 + n + k, t + 1 + n + k)
        ELSE o4

\* the event type with the refund left to the fallback
StatusEventTypeNoRefund(newStatus) ==
    CASE newStatus = OrderStatusConfirmed -> "order.confirmed"
      [] newStatus = OrderStatusCancelled -> "order.cancelled"
      [] newStatus = OrderStatusShipped   -> "order.shipped"
      [] newStatus = OrderStatusDelivered -> "order.delivered"
      [] OTHER -> "order.status_changed"

\* the event type UpdateOrderStatusUseCase.Execute publishes for a target status
StatusEventType(newStatus) ==
    CASE newStatus = OrderStatusConfirmed -> "order.confirmed"
      [] newStatus = OrderStatusCancelled -> "order.cancelled"
      [] newStatus = OrderStatusShipped   -> "order.shipped"
      [] newStatus = OrderStatusDelivered -> "order.delivered"
      [] newStatus = OrderStatusRefunded  -> "order.refunded"
      [] OTHER -> "order.status_changed"

(***************************************************************************)
(* Bounds and inputs of the aggregate's specification.                     *)
(***************************************************************************)
MaxAdds == 2

Prices == {F_0_0, F_0_1, F_0_2, F_m0_5}

Quantities == {0 - 1, 0, 1, 3}

ItemIds == 1..(MaxAdds + 2)

NoCall ==
    [op |-> "none", newStatus |-> "", price |-> FZero, quantity |-> 0,
     itemID |-> NilUuid, err |-> NoError, removed |-> FALSE]

\* a nil *Order, a request goroutine at rest, and the result of no execution
NilOrder == [ID |-> NilUuid]

NoEvent == [EventID |-> NilUuid]

Idle ==
    [pc |-> "idle", req |-> <<>>, order |-> NilOrder, oldStatus |-> "",
     event |-> NoEvent, repoWrite |-> "none", publishCalls |-> 0]

NoResult ==
    [uc |-> "none", orderID |-> NilUuid, err |-> NoError, order |-> NilOrder,
     oldStatus |-> "", newStatus |-> "", repoWrite |-> "none", publishCalls |-> 0,
     publishFailed |-> FALSE]

Procs == {"h1", "h2"}

\* no message in hand
NoOffset == 0 - 1

\* the consumer NewConsumer returns, before Start runs
NewConsumer ==
    [pc        |-> "select",   \* where Start is: select, process, ack, returned
     ctxDone   |-> FALSE,      \* the context passed to Start was cancelled
     position  |-> 0,          \* the offset FetchMessage gives next
     offset    |-> NoOffset,   \* the offset of the message in hand
     err       |-> NoError,    \* what processMessage returned for it
     handled   |-> <<>>,       \* the handler calls made, in order
     commits   |-> {},         \* the offsets handed to CommitMessages
     committed |-> {},         \* the offsets CommitMessages accepted
     reports   |-> {},         \* the errors printed: <<what, offset>>
     startErr  |-> NoError]    \* what Start returned

InitUseCases ==
    /\ store = <<>>
    /\ proc = [p \in Procs |-> Idle]
    /\ result = NoResult
    /\ transport = <<>>
    /\ publishErrors = {}
    /\ execs = 0

\* the aggregate's specification: one order fresh from NewOrder
Init ==
    /\ order = NewOrder(1, 500, EmailTest, 1)
    /\ now = 1
    /\ nextUuid = 2
    /\ ret = NoCall
    /\ consumer = NewConsumer
    /\ InitUseCases

UpdateStatus(newStatus) ==
    /\ order' = UpdateStatusOrder(order, newStatus, now + 1)
    /\ now' = IF canTransitionTo(order, newStatus) THEN now + 1 ELSE now
    /\ ret' = [NoCall EXCEPT !.op = "UpdateStatus", !.newStatus = newStatus,
                             !.err = UpdateStatusErr(order, newStatus)]
    /\ UNCHANGED <<nextUuid, ucVars, consumer>>

AddItem(price, quantity) ==
    /\ nextUuid < 2 + MaxAdds
    /\ order' = AddItemOrder(order, nextUuid, 100, "Widget", price, quantity, now + 1)
    /\ nextUuid' = nextUuid + 1
    /\ now' = now + 1
    /\ ret' = [NoCall EXCEPT !.op = "AddItem", !.price = price, !.quantity = quantity]
    /\ UNCHANGED <<ucVars, consumer>>

RemoveItem(itemID) ==
    /\ order' = RemoveItemOrder(order, itemID, now + 1)
    /\ now' = IF RemoveItemFound(order, itemID) THEN now + 1 ELSE now
    /\ ret' = [NoCall EXCEPT !.op = "RemoveItem", !.itemID = itemID,
                             !.removed = RemoveItemFound(order, itemID)]
    /\ UNCHANGED <<nextUuid, ucVars, consumer>>

Next ==
    \/ \E s \in Statuses : UpdateStatus(s)
    \/ \E p \in Prices, q \in Quantities : AddItem(p, q)
    \/ \E i \in ItemIds : RemoveItem(i)

Spec == Init /\ [][Next]_vars

(***************************************************************************)
(* The use cases' specification: request goroutines run CreateOrder,       *)
(* UpdateOrderStatus and GetOrder concurrently against one database and    *)
(* one producer.  A step is one call on the database or the producer,      *)
(* together with the goroutine's own computation around it.                *)
(***************************************************************************)
MaxExecs == 3

ItemWidget == [ProductID |-> 100, Name |-> "Widget", Price |-> F_10_99, Quantity |-> 2]
ItemGadget == [ProductID |-> 101, Name |-> "Gadget", Price |-> F_0_2, Quantity |-> 1]

AddressReq ==
    [Street |-> "1 Main St", City |-> "Riga", State |-> "", Country |-> "LV",
     ZipCode |-> "1001"]

CreateRequest(email, items, currency, shipping) ==
    [CustomerID |-> 500, Email |-> email, Items |-> items, Currency |-> currency,
     Metadata |-> <<>>, ShippingAddress |-> shipping, BillingAddress |-> NilAddress]

CreateRequests ==
    {CreateRequest(EmailTest, <<ItemWidget>>, "", NilAddress),
     CreateRequest(EmailTest, <<ItemWidget, ItemGadget>>, "EUR", AddressReq),
     CreateRequest(EmailTest, <<>>, "", NilAddress),
     CreateRequest(<<"t", "e", "s", "t", "s">>, <<ItemWidget>>, "", NilAddress)}

\* requests the validation of the request refuses, one for each of its checks
CreateRequestsInvalid ==
    LET ok   == CreateRequest(EmailTest, <<ItemWidget>>, "", NilAddress)
        with(item) == [ok EXCEPT !.Items = <<item>>]
    IN  {[ok EXCEPT !.CustomerID = NilUuid],
         [ok EXCEPT !.Email = <<>>],
         with([ItemWidget EXCEPT !.ProductID = NilUuid]),
         with([ItemWidget EXCEPT !.Name = ""]),
         with([ItemWidget EXCEPT !.Price = F_0_0]),
         with([ItemWidget EXCEPT !.Price = F_m0_5]),
         with([ItemWidget EXCEPT !.Quantity = 0]),
         [ok EXCEPT !.Items = <<ItemWidget, [ItemGadget EXCEPT !.Quantity = 0 - 1]>>]}

\* a request the request's validation lets through (NaN <= 0 is false) and
\* the aggregate's validation refuses (NaN != NaN)
CreateRequestNaN ==
    CreateRequest(EmailTest, <<[ItemWidget EXCEPT !.Price = F_NaN]>>, "", NilAddress)

\* a request that sets every optional field
CreateRequestFull ==
    [CreateRequest(EmailTest, <<ItemWidget>>, "EUR", AddressReq)
        EXCEPT !.Metadata = [source |-> "web"],
               !.BillingAddress = [AddressReq EXCEPT !.Street = "2 Side St"]]

CreateRequestsAll ==
    CreateRequests \cup CreateRequestsInvalid \cup {CreateRequestNaN, CreateRequestFull}

\* the target statuses requested here: a chain of the table, a branch of it
\* to a final status, and the empty status the validation refuses
RequestedStatuses ==
    {OrderStatusConfirmed, OrderStatusProcessing, OrderStatusCancelled, ""}

\* a reason is given with a cancellation
UpdateRequests ==
    {[OrderID |-> id, NewStatus |-> s,
      Reason |-> IF s = OrderStatusCancelled THEN "customer request" ELSE ""] :
        id \in (DOMAIN store) \cup {nextUuid}, s \in RequestedStatuses}
    \cup {[OrderID |-> NilUuid, NewStatus |-> OrderStatusConfirmed, Reason |-> ""]}

GetRequests == {[OrderID |-> id] : id \in (DOMAIN store) \cup {NilUuid, nextUuid}}

\* Execute returns: the goroutine is at rest again and its result is recorded
Return(p, r) ==
    /\ proc' = [proc EXCEPT ![p] = Idle]
    /\ result' = r

Failure(uc, id, err) == [NoResult EXCEPT !.uc = uc, !.orderID = id, !.err = err]

\* CreateOrder going on to the repository without the aggregate's validation
CreateOrderBeginNoValidate(p, req) ==
    /\ proc[p].pc = "idle"
    /\ execs < MaxExecs
    /\ execs' = execs + 1
    /\ LET verr == CreateValidateRequest(req)
           o    == BuildOrder(req, nextUuid, now + 1)
       IN  IF verr # NoError
           THEN /\ Return(p, Failure("CreateOrder", NilUuid, Wrap("validation failed", verr)))
                /\ UNCHANGED <<now, nextUuid>>
           ELSE /\ now' = now + BuildUuids(req)
                /\ nextUuid' = nextUuid + BuildUuids(req)
                /\ proc' = [proc EXCEPT ![p] =
                              [Idle EXCEPT !.pc = "create_persist",
                                           !.req = req, !.order = o]]
                /\ UNCHANGED result
    /\ UNCHANGED <<store, transport, publishErrors, aggVars, consumer>>

\* CreateOrderUseCase.Execute, lines 84-138: validate, build, validate again
CreateOrderBegin(p, req) ==
    /\ proc[p].pc = "idle"
    /\ execs < MaxExecs
    /\ execs' = execs + 1
    /\ LET verr == CreateValidateRequest(req)
           o    == BuildOrder(req, nextUuid, now + 1)
       IN  IF verr # NoError
           THEN /\ Return(p, Failure("CreateOrder", NilUuid, Wrap("validation failed", verr)))
                /\ UNCHANGED <<now, nextUuid>>
           ELSE /\ now' = now + BuildUuids(req)
                /\ nextUuid' = nextUuid + BuildUuids(req)
                /\ IF Validate(o) # NoError
                   THEN Return(p, Failure("CreateOrder", NilUuid,
                                          Wrap("order validation failed", Validate(o))))
                   ELSE /\ proc' = [proc EXCEPT ![p] =
                                      [Idle EXCEPT !.pc = "create_persist",
                                                   !.req = req, !.order = o]]
                        /\ UNCHANGED result
    /\ UNCHANGED <<store, transport, publishErrors, aggVars, consumer>>

\* lines 140-144: orderRepo.Create; every insert and the commit can fail
CreateOrderPersist(p) ==
    /\ proc[p].pc = "create_persist"
    /\ \E dbFails \in BOOLEAN :
         LET o == proc[p].order
         IN  IF dbFails \/ ~CreateTotalCheckPasses(o)
             THEN /\ Return(p, [Failure("CreateOrder", NilUuid,
                                  Wrap("failed to save order", StorageError("create")))
                                  EXCEPT !.repoWrite = "failed"])
                  /\ UNCHANGED <<store, now>>
             ELSE /\ store' = store @@ (o.ID :> CreatedRow(o, now + 1))
                  /\ now' = now + 1
                  /\ proc' = [proc EXCEPT ![p].pc = "create_event",
                                          ![p].repoWrite = "ok"]
                  /\ UNCHANGED result
    /\ UNCHANGED <<nextUuid, transport, publishErrors, execs, aggVars, consumer>>

\* line 153: order.ToEvent(EventOrderCreated)
CreateOrderToEvent(p) ==
    /\ proc[p].pc = "create_event"
    /\ proc' = [proc EXCEPT ![p].pc = "create_publish",
                            ![p].event = ToEvent(proc[p].order, "order.created",
                                                 nextUuid, now + 1)]
    /\ nextUuid' = nextUuid + 1
    /\ now' = now + 1
    /\ UNCHANGED <<store, result, transport, publishErrors, execs, aggVars, consumer>>

\* the producer's WriteMessages, which can fail, and the publish error's log line
Publish(p, publishFails) ==
    IF publishFails
    THEN /\ publishErrors' = publishErrors \cup
                {<<proc[p].event.EventType, proc[p].event.OrderID>>}
         /\ UNCHANGED transport
    ELSE /\ transport' = Append(transport, MessageOf(proc[p].event))
         /\ UNCHANGED publishErrors

\* CreateOrder treating a failed publish as fatal
CreateOrderPublishFatal(p) ==
    /\ proc[p].pc = "create_publish"
    /\ \E publishFails \in BOOLEAN :
         /\ Publish(p, publishFails)
         /\ proc' = [proc EXCEPT ![p] = Idle]
         /\ result' =
               IF publishFails
               THEN [Failure("CreateOrder", proc[p].order.ID,
                             Wrap("failed to publish event", PublishError))
                       EXCEPT !.repoWrite = proc[p].repoWrite,
                              !.publishCalls = proc[p].publishCalls + 1,
                              !.publishFailed = TRUE]
               ELSE [NoResult EXCEPT !.uc = "CreateOrder",
                                     !.orderID = proc[p].order.ID,
                                     !.order = proc[p].order,
                                     !.repoWrite = proc[p].repoWrite,
                                     !.publishCalls = proc[p].publishCalls + 1]
    /\ UNCHANGED <<now, nextUuid, store, execs, aggVars, consumer>>

\* lines 154-170: publish, log, return the order
CreateOrderPublish(p) ==
    /\ proc[p].pc = "create_publish"
    /\ \E publishFails \in BOOLEAN :
         /\ Publish(p, publishFails)
         /\ proc' = [proc EXCEPT ![p] = Idle]
         /\ result' =
                         [NoResult EXCEPT !.uc = "CreateOrder",
                                          !.orderID = proc[p].order.ID,
                                          !.order = proc[p].order,
                                          !.repoWrite = proc[p].repoWrite,
                                          !.publishCalls = proc[p].publishCalls + 1,
                                          !.publishFailed = publishFails]
    /\ UNCHANGED <<now, nextUuid, store, execs, aggVars, consumer>>

\* UpdateOrderStatusUseCase.Execute, lines 48-81: validate, orderRepo.GetByID
\* (which can fail), order.UpdateStatus, the reason into the metadata
UpdateStatusBegin(p, req) ==
    /\ proc[p].pc = "idle"
    /\ execs < MaxExecs
    /\ execs' = execs + 1
    /\ \E dbFails \in BOOLEAN :
         LET verr == UpdateValidateRequest(req)
             id   == req.OrderID
             fail(err) == /\ Return(p, [Failure("UpdateOrderStatus", id, err)
                                           EXCEPT !.newStatus = req.NewStatus])
                          /\ UNCHANGED now
         IN  IF verr # NoError THEN fail(Wrap("validation failed", verr))
             ELSE IF dbFails
                 THEN fail(Wrap("failed to get order", StorageError("get")))
             ELSE IF id \notin DOMAIN store
                 THEN fail(Wrap("failed to get order", NewOrderNotFoundError(id)))
             ELSE LET o    == GetByIDOrder(id)
                      uerr == UpdateStatusErr(o, req.NewStatus)
                      o1   == UpdateStatusOrder(o, req.NewStatus, now + 1)
                      o2   == IF req.Reason # ""
                              THEN [o1 EXCEPT !.Metadata =
                                      [status_change_reason |-> req.Reason]]
                              ELSE o1
                  IN  IF uerr # NoError
                      THEN fail(Wrap("status update failed", uerr))
                      ELSE /\ proc' = [proc EXCEPT ![p] =
                                         [Idle EXCEPT !.pc = "update_persist",
                                                      !.req = req, !.order = o2,
                                                      !.oldStatus = o.Status]]
                           /\ now' = now + 1
                           /\ UNCHANGED result
    /\ UNCHANGED <<nextUuid, store, transport, publishErrors, aggVars, consumer>>

\* UpdateOrderStatus going on to the event although the write failed
UpdateStatusPersistIgnoreError(p) ==
    /\ proc[p].pc = "update_persist"
    /\ \E dbFails \in BOOLEAN :
         LET o == proc[p].order
         IN  IF dbFails \/ o.ID \notin DOMAIN store
                \/ ~UpdateTotalCheckPasses(store[o.ID], o)
             THEN /\ proc' = [proc EXCEPT ![p].pc = "update_event",
                                          ![p].repoWrite = "failed"]
                  /\ UNCHANGED <<store, now, result>>
             ELSE /\ store' = [store EXCEPT ![o.ID] = UpdatedRow(@, o, now + 1)]
                  /\ now' = now + 1
                  /\ proc' = [proc EXCEPT ![p].pc = "update_event",
                                          ![p].repoWrite = "ok"]
                  /\ UNCHANGED result
    /\ UNCHANGED <<nextUuid, transport, publishErrors, execs, aggVars, consumer>>

\* lines 83-87: orderRepo.Update, one UPDATE ... WHERE id = $1
UpdateStatusPersist(p) ==
    /\ proc[p].pc = "update_persist"
    /\ \E dbFails \in BOOLEAN :
         LET o  == proc[p].order
             fail(err) ==
                 /\ Return(p, [Failure("UpdateOrderStatus", o.ID,
                                       Wrap("failed to save order", err))
                                 EXCEPT !.repoWrite = "failed",
                                        !.newStatus = proc[p].req.NewStatus])
                 /\ UNCHANGED <<store, now>>
         IN  IF dbFails THEN fail(StorageError("update"))
             ELSE IF o.ID \notin DOMAIN store THEN fail(NewOrderNotFoundError(o.ID))
             ELSE IF ~UpdateTotalCheckPasses(store[o.ID], o)
                 THEN fail(StorageError("update"))
             ELSE /\ store' = [store EXCEPT ![o.ID] = UpdatedRow(@, o, now + 1)]
                  /\ now' = now + 1
                  /\ proc' = [proc EXCEPT ![p].pc = "update_event",
                                          ![p].repoWrite = "ok"]
                  /\ UNCHANGED result
    /\ UNCHANGED <<nextUuid, transport, publishErrors, execs, aggVars, consumer>>

\* the event built with old_status read from the order after its update
UpdateStatusToEventNewAsOld(p) ==
    /\ proc[p].pc = "update_event"
    /\ LET e == ToEvent(proc[p].order, StatusEventType(proc[p].req.NewStatus),
                        nextUuid, now + 1)
       IN  proc' = [proc EXCEPT ![p].pc = "update_publish",
                                ![p].event =
                                   [e EXCEPT !.Data =
                                      [email         |-> e.Data.email,
                                       item_count    |-> e.Data.item_count,
                                       old_status    |-> proc[p].order.Status,
                                       change_reason |-> proc[p].req.Reason]]]
    /\ nextUuid' = nextUuid + 1
    /\ now' = now + 1
    /\ UNCHANGED <<store, result, transport, publishErrors, execs, aggVars, consumer>>

\* lines 95-115: the event type by target status, order.ToEvent, old_status
\* and change_reason into the event's data
UpdateStatusToEvent(p) ==
    /\ proc[p].pc = "update_event"
    /\ LET e == ToEvent(proc[p].order, StatusEventType(proc[p].req.NewStatus),
                        nextUuid, now + 1)
       IN  proc' = [proc EXCEPT ![p].pc = "update_publish",
                                ![p].event =
                                   [e EXCEPT !.Data =
                                      [email         |-> e.Data.email,
                                       item_count    |-> e.Data.item_count,
                                       old_status    |-> proc[p].oldStatus,
                                       change_reason |-> proc[p].req.Reason]]]
    /\ nextUuid' = nextUuid + 1
    /\ now' = now + 1
    /\ UNCHANGED <<store, result, transport, publishErrors, execs, aggVars, consumer>>

\* a failed publish tried once more at once (the second try goes through)
UpdateStatusPublishRetry(p) ==
    /\ proc[p].pc = "update_publish"
    /\ \E publishFails \in BOOLEAN :
         /\ transport' = Append(transport, MessageOf(proc[p].event))
         /\ publishErrors' = IF publishFails
                              THEN publishErrors \cup
                                   {<<proc[p].event.EventType, proc[p].event.OrderID>>}
                              ELSE publishErrors
         /\ proc' = [proc EXCEPT ![p] = Idle]
         /\ result' =
               [NoResult EXCEPT !.uc = "UpdateOrderStatus",
                                !.orderID = proc[p].order.ID,
                                !.order = proc[p].order,
                                !.oldStatus = proc[p].oldStatus,
                                !.newStatus = proc[p].req.NewStatus,
                                !.repoWrite = proc[p].repoWrite,
                                !.publishCalls = IF publishFails THEN 2 ELSE 1,
                                !.publishFailed = publishFails]
    /\ UNCHANGED <<now, nextUuid, store, execs, aggVars, consumer>>

\* lines 117-136: publish, log, return old and new status
UpdateStatusPublish(p) ==
    /\ proc[p].pc = "update_publish"
    /\ \E publishFails \in BOOLEAN :
         /\ Publish(p, publishFails)
         /\ proc' = [proc EXCEPT ![p] = Idle]
         /\ result' =
                         [NoResult EXCEPT !.uc = "UpdateOrderStatus",
                                          !.orderID = proc[p].order.ID,
                                          !.order = proc[p].order,
                                          !.oldStatus = proc[p].oldStatus,
                                          !.newStatus = proc[p].req.NewStatus,
                                          !.repoWrite = proc[p].repoWrite,
                                          !.publishCalls = proc[p].publishCalls + 1,
                                          !.publishFailed = publishFails]
    /\ UNCHANGED <<now, nextUuid, store, execs, aggVars, consumer>>

\* GetOrderUseCase.Execute: validate, orderRepo.GetByID (which can fail)
GetOrderResult(req, dbFails) ==
    LET verr == GetValidateRequest(req)
        id   == req.OrderID
    IN  IF verr # NoError
        THEN Failure("GetOrder", id, Wrap("validation failed", verr))
        ELSE IF dbFails
        THEN Failure("GetOrder", id, Wrap("failed to get order", StorageError("get")))
        ELSE IF id \notin DOMAIN store
        THEN Failure("GetOrder", id,
                     Wrap("failed to get order", NewOrderNotFoundError(id)))
        ELSE [NoResult EXCEPT !.uc = "GetOrder", !.orderID = id,
                              !.order = GetByIDOrder(id)]

GetOrderExecute(p, req) ==
    /\ proc[p].pc = "idle"
    /\ execs < MaxExecs
    /\ execs' = execs + 1
    /\ \E dbFails \in BOOLEAN : result' = GetOrderResult(req, dbFails)
    /\ UNCHANGED <<proc, now, nextUuid, store, transport, publishErrors, aggVars, consumer>>

InitUC ==
    /\ order = NilOrder
    /\ ret = NoCall
    /\ now = 0
    /\ nextUuid = 1
    /\ consumer = NewConsumer
    /\ InitUseCases

NextUC ==
    \E p \in Procs :
        \/ \E req \in CreateRequests : CreateOrderBegin(p, req)
        \/ CreateOrderPersist(p)
        \/ CreateOrderToEvent(p)
        \/ CreateOrderPublish(p)
        \/ \E req \in UpdateRequests : UpdateStatusBegin(p, req)
        \/ UpdateStatusPersist(p)
        \/ UpdateStatusToEvent(p)
        \/ UpdateStatusPublish(p)
        \/ \E req \in GetRequests : GetOrderExecute(p, req)

SpecUC == InitUC /\ [][NextUC]_vars

(***************************************************************************)
(* Creation and reading alone, over every kind of create request.          *)
(***************************************************************************)
NextCreate ==
    \E p \in Procs :
        \/ \E req \in CreateRequestsAll : CreateOrderBegin(p, req)
        \/ CreateOrderPersist(p)
        \/ CreateOrderToEvent(p)
        \/ CreateOrderPublish(p)
        \/ \E req \in GetRequests : GetOrderExecute(p, req)

SpecCreate == InitUC /\ [][NextCreate]_vars

(***************************************************************************)
(* Status updates alone, on one stored order found in any of the seven     *)
(* statuses (as earlier executions left it), with every target requested.  *)
(***************************************************************************)
\* the order of the first create request, as stored at time t in status s
StoredInStatus(s, t) ==
    LET req == CreateRequest(EmailTest, <<ItemWidget>>, "", NilAddress)
        row == CreatedRow(BuildOrder(req, 1, 1), 1 + BuildUuids(req))
    IN  IF s = OrderStatusPending THEN row
        ELSE [row EXCEPT !.Status = s, !.UpdatedAt = t]

\* the time and the next uuid after the executions that led to the stored order
LaterTime == 20

InitUpdate ==
    /\ order = NilOrder
    /\ ret = NoCall
    /\ now = LaterTime
    /\ nextUuid = LaterTime
    /\ \E s \in Statuses : store = (1 :> StoredInStatus(s, LaterTime))
    /\ proc = [p \in Procs |-> Idle]
    /\ result = NoResult
    /\ transport = <<>>
    /\ publishErrors = {}
    /\ consumer = NewConsumer
    /\ execs = 0

\* every target and one that is no status, on the stored id and on an id
\* that is not stored; a reason is given with a cancellation and a refund
UpdateRequestsAll ==
    {[OrderID |-> id, NewStatus |-> s,
      Reason |-> IF s \in {OrderStatusCancelled, OrderStatusRefunded}
                 THEN "customer request" ELSE ""] :
        id \in (DOMAIN store) \cup {nextUuid},
        s \in Statuses \cup {"archived"}}

NextUpdate ==
    \E p \in Procs :
        \/ \E req \in UpdateRequestsAll : UpdateStatusBegin(p, req)
        \/ UpdateStatusPersist(p)
        \/ UpdateStatusToEvent(p)
        \/ UpdateStatusPublish(p)

SpecUpdate == InitUpdate /\ [][NextUpdate]_vars

(***************************************************************************)
(* The producer alone: PublishOrderEvent and PublishOrderEvents called     *)
(* with events of several orders; ret is the return of the last call.      *)
(***************************************************************************)
MaxMessages == 3

MaxBatch == 2

\* events as ToEvent builds them for new orders, and one whose amount is NaN
ProducerEvents ==
    {ToEvent(NewOrder(id, c, EmailTest, 1), ty, 10 + id, 2) :
        id \in {1, 2}, c \in {500, 501}, ty \in {"order.created", "order.cancelled"}}
    \cup {[ToEvent(NewOrder(3, 500, EmailTest, 1), "order.created", 13, 2)
              EXCEPT !.TotalAmount = F_NaN]}

EventBatches ==
    UNION {[1..n -> ProducerEvents] : n \in 0..MaxBatch}

\* the subsequences of a sequence of messages: what a failing batch write
\* can have handed over
RECURSIVE SubSequences(_)
SubSequences(msgs) ==
    IF msgs = <<>> THEN {<<>>}
    ELSE LET rest == SubSequences(Tail(msgs))
         IN  rest \cup {<<Head(msgs)>> \o r : r \in rest}

InitProducer ==
    /\ order = NilOrder
    /\ ret = NoCall
    /\ now = 0
    /\ nextUuid = 1
    /\ consumer = NewConsumer
    /\ InitUseCases

\* Producer.PublishOrderEvent, lines 47-74
PublishOrderEvent(event) ==
    /\ Len(transport) < MaxMessages
    /\ \E writeFails \in BOOLEAN :
         IF MarshalFails(event)
         THEN /\ ret' = [NoCall EXCEPT !.op = "PublishOrderEvent", !.err = MarshalError]
              /\ UNCHANGED transport
         ELSE IF writeFails
         THEN /\ ret' = [NoCall EXCEPT !.op = "PublishOrderEvent", !.err = PublishError]
              /\ UNCHANGED transport
         ELSE /\ ret' = [NoCall EXCEPT !.op = "PublishOrderEvent"]
              /\ transport' = Append(transport, MessageOf(event))
    /\ UNCHANGED <<order, now, nextUuid, store, proc, result, publishErrors, execs,
                 consumer>>

\* Producer.PublishOrderEvents, lines 77-112
PublishOrderEvents(events) ==
    /\ Len(transport) + Len(events) <= MaxMessages
    /\ \E writeFails \in BOOLEAN :
         LET messages == [i \in 1..Len(events) |-> MessageOf(events[i])]
         IN  IF events = <<>>
             THEN /\ ret' = [NoCall EXCEPT !.op = "PublishOrderEvents"]
                  /\ UNCHANGED transport
             ELSE IF \E i \in 1..Len(events) : MarshalFails(events[i])
             THEN /\ ret' = [NoCall EXCEPT !.op = "PublishOrderEvents",
                                           !.err = MarshalError]
                  /\ UNCHANGED transport
             ELSE IF writeFails
             THEN /\ ret' = [NoCall EXCEPT !.op = "PublishOrderEvents",
                                           !.err = PublishError]
                  /\ \E written \in SubSequences(messages) \ {messages} :
                        transport' = transport \o written
             ELSE /\ ret' = [NoCall EXCEPT !.op = "PublishOrderEvents"]
                  /\ transport' = transport \o messages
    /\ UNCHANGED <<order, now, nextUuid, store, proc, result, publishErrors, execs,
                 consumer>>

NextProducer ==
    \/ \E event \in ProducerEvents : PublishOrderEvent(event)
    \/ \E events \in EventBatches : PublishOrderEvents(events)

SpecProducer == InitProducer /\ [][NextProducer]_vars

(***************************************************************************)
(* The consumer: Consumer.Start reads the topic (transport, a message's    *)
(* offset being its index less one), processMessage dispatches each        *)
(* message to a handler of OrderEventHandler, and the loop commits it or   *)
(* reports the error.                                                      *)
(***************************************************************************)
MaxLog == 2

\* string(header.Value)
StringOf(bytes) == bytes[1]

\* Consumer.getHeaderValue
getHeaderValue(headers, key) ==
    IF key \in DOMAIN headers THEN StringOf(headers[key]) ELSE ""

\* a value that is not the JSON of an event
NotJson == [garbage |-> TRUE]

UnmarshalFails(value) == "EventID" \notin DOMAIN value

UnmarshalError ==
    [Type |-> "UNMARSHAL_ERROR", Message |-> <<"invalid character">>,
     FromStatus |-> "", ToStatus |-> ""]

ContextCanceled ==
    [Type |-> "CONTEXT_CANCELED", Message |-> <<"context canceled">>,
     FromStatus |-> "", ToStatus |-> ""]

\* the handlers of OrderEventHandler: what each returns (they log, and two
\* of them read the order through GetOrderUseCase)
HandleOrderCreated(event) == NoError

HandleOrderConfirmed(event) == NoError

HandleOrderCancelled(event, dbFails) ==
    LET resp == GetOrderResult([OrderID |-> event.OrderID], dbFails)
    IN  IF resp.err # NoError THEN Wrap("failed to get order details", resp.err)
        ELSE NoError

HandleOrderShipped(event) == NoError

HandleOrderDelivered(event) == NoError

HandleOrderRefunded(event, dbFails) ==
    LET resp == GetOrderResult([OrderID |-> event.OrderID], dbFails)
    IN  IF resp.err # NoError THEN Wrap("failed to get order details", resp.err)
        ELSE NoError

HandleGenericMessage(message) == NoError

\* Consumer.processMessage: the handler the message reaches and the error
\* returned (the kafka_* entries added to the event's data are read by no
\* handler)
processMessage(message, dbFails) ==
    LET eventType  == getHeaderValue(message.Headers, "event-type")
        orderEvent == message.Value
        to(handler, err) == [handler |-> handler, err |-> err]
    IN  IF eventType = ""
        THEN to("HandleGenericMessage", HandleGenericMessage(message))
        ELSE IF UnmarshalFails(message.Value)
        THEN to("none", Wrap("failed to unmarshal order event", UnmarshalError))
        ELSE CASE eventType = "order.created" ->
                    to("HandleOrderCreated", HandleOrderCreated(orderEvent))
               [] eventType = "order.confirmed" ->
                    to("HandleOrderConfirmed", HandleOrderConfirmed(orderEvent))
               [] eventType = "order.cancelled" ->
                    to("HandleOrderCancelled", HandleOrderCancelled(orderEvent, dbFails))
               [] eventType = "order.shipped" ->
                    to("HandleOrderShipped", HandleOrderShipped(orderEvent))
               [] eventType = "order.delivered" ->
                    to("HandleOrderDelivered", HandleOrderDelivered(orderEvent))
               [] eventType = "order.refunded" ->
                    to("HandleOrderRefunded", HandleOrderRefunded(orderEvent, dbFails))
               [] OTHER ->
                    to("HandleGenericMessage", HandleGenericMessage(message))

\* BatchConsumer.processMessage: the same dispatch, written a second time
\* (without the kafka_* entries)
processMessageBatch(message, dbFails) ==
    LET eventType  == getHeaderValue(message.Headers, "event-type")
        orderEvent == message.Value
        to(handler, err) == [handler |-> handler, err |-> err]
    IN  IF eventType = ""
        THEN to("HandleGenericMessage", HandleGenericMessage(message))
        ELSE IF UnmarshalFails(message.Value)
        THEN to("none", Wrap("failed to unmarshal order event", UnmarshalError))
        ELSE CASE eventType = "order.created" ->
                    to("HandleOrderCreated", HandleOrderCreated(orderEvent))
               [] eventType = "order.confirmed" ->
                    to("HandleOrderConfirmed", HandleOrderConfirmed(orderEvent))
               [] eventType = "order.cancelled" ->
                    to("HandleOrderCancelled", HandleOrderCancelled(orderEvent, dbFails))
               [] eventType = "order.shipped" ->
                    to("HandleOrderShipped", HandleOrderShipped(orderEvent))
               [] eventType = "order.delivered" ->
                    to("HandleOrderDelivered", HandleOrderDelivered(orderEvent))
               [] eventType = "order.refunded" ->
                    to("HandleOrderRefunded", HandleOrderRefunded(orderEvent, dbFails))
               [] OTHER ->
                    to("HandleGenericMessage", HandleGenericMessage(message))

\* the messages on the topic: an event of each type for the stored order, a
\* cancellation of an order that is not stored, a message without headers,
\* one with an empty type, and two whose value cannot be decoded (of a known
\* type and of a type that is no order event's)
InboundMessages ==
    LET stored  == NewOrder(1, 500, EmailTest, 1)
        unknown == NewOrder(2, 501, EmailTest, 1)
        created == MessageOf(ToEvent(stored, "order.created", 30, 2))
    IN  {MessageOf(ToEvent(stored, StatusEventType(s), 30, 2)) : s \in Statuses}
        \cup {created,
              MessageOf(ToEvent(unknown, "order.cancelled", 31, 2)),
              [created EXCEPT !.Headers = <<>>],
              [created EXCEPT !.Headers["event-type"] = <<"">>],
              [created EXCEPT !.Value = NotJson],
              [created EXCEPT !.Headers["event-type"] = <<"metrics.tick">>,
                              !.Value = NotJson]}

TopicLogs == UNION {[1..n -> InboundMessages] : n \in 1..MaxLog}

InitConsumer ==
    /\ order = NilOrder
    /\ ret = NoCall
    /\ now = LaterTime
    /\ nextUuid = LaterTime
    /\ \E s \in {"pending", "cancelled", "refunded"} :
          store = (1 :> StoredInStatus(s, LaterTime))
    /\ proc = [p \in Procs |-> Idle]
    /\ result = NoResult
    /\ transport \in TopicLogs
    /\ publishErrors = {}
    /\ execs = 0
    /\ consumer = NewConsumer

\* the context given to Start is cancelled (a signal reached main)
ContextCancel ==
    /\ ~consumer.ctxDone
    /\ consumer' = [consumer EXCEPT !.ctxDone = TRUE]
    /\ UNCHANGED <<aggVars, now, nextUuid, ucVars>>

\* a loop without the select on the context: the cancelled fetch fails, is
\* reported, and the loop goes round again
ConsumerFetchNoSelect ==
    /\ consumer.pc = "select"
    /\ IF consumer.ctxDone
       THEN consumer' = [consumer EXCEPT
                             !.reports = @ \cup {<<"read", consumer.position>>}]
       ELSE \E fetchFails \in BOOLEAN :
              IF fetchFails
              THEN consumer' = [consumer EXCEPT
                                    !.reports = @ \cup {<<"read", consumer.position>>}]
              ELSE /\ consumer.position < Len(transport)
                   /\ consumer' = [consumer EXCEPT !.pc = "process",
                                                   !.offset = consumer.position,
                                                   !.position = @ + 1,
                                                   !.err = NoError]
    /\ UNCHANGED <<aggVars, now, nextUuid, ucVars>>

\* Consumer.Start, lines 67-78: the select on the context, then FetchMessage
ConsumerFetch ==
    /\ consumer.pc = "select"
    /\ IF consumer.ctxDone
       THEN consumer' = [consumer EXCEPT !.pc = "returned", !.startErr = ContextCanceled]
       ELSE \E fetchFails \in BOOLEAN :
              IF fetchFails
              THEN consumer' = [consumer EXCEPT
                                    !.reports = @ \cup {<<"read", consumer.position>>}]
              ELSE /\ consumer.position < Len(transport)
                   /\ consumer' = [consumer EXCEPT !.pc = "process",
                                                   !.offset = consumer.position,
                                                   !.position = @ + 1,
                                                   !.err = NoError]
    /\ UNCHANGED <<aggVars, now, nextUuid, ucVars>>

\* the cancellation handler writing the cancelled status back
ConsumerProcessCancelWrites ==
    /\ consumer.pc = "process"
    /\ \E dbFails \in BOOLEAN :
         LET message == transport[consumer.offset + 1]
             r       == processMessage(message, dbFails)
         IN  /\ consumer' = [consumer EXCEPT
                    !.pc = "ack",
                    !.err = r.err,
                    !.handled = Append(@, [offset |-> consumer.offset,
                                           handler |-> r.handler, err |-> r.err])]
             /\ store' = IF r.handler = "HandleOrderCancelled" /\ r.err = NoError
                         THEN [store EXCEPT ![message.Value.OrderID].Status = "cancelled"]
                         ELSE store
    /\ UNCHANGED <<aggVars, now, nextUuid, proc, result, transport, publishErrors, execs>>

\* Consumer.Start, line 81: processMessage on the message in hand
ConsumerProcess ==
    /\ consumer.pc = "process"
    /\ \E dbFails \in BOOLEAN :
         LET message == transport[consumer.offset + 1]
             r       == processMessage(message, dbFails)
         IN  consumer' = [consumer EXCEPT
                    !.pc = "ack",
                    !.err = r.err,
                    !.handled = Append(@, [offset |-> consumer.offset,
                                           handler |-> r.handler, err |-> r.err])]
    /\ UNCHANGED <<aggVars, now, nextUuid, ucVars>>

\* the loop committing whatever processMessage returned
ConsumerAckAlwaysCommit ==
    /\ consumer.pc = "ack"
    /\ \E commitFails \in BOOLEAN :
         consumer' =
             IF commitFails
             THEN [consumer EXCEPT !.pc = "select",
                                   !.commits = @ \cup {consumer.offset},
                                   !.reports = @ \cup {<<"commit", consumer.offset>>}]
             ELSE [consumer EXCEPT !.pc = "select",
                                   !.commits = @ \cup {consumer.offset},
                                   !.committed = @ \cup {consumer.offset}]
    /\ UNCHANGED <<aggVars, now, nextUuid, ucVars>>

\* Consumer.Start, lines 81-89: report the error, or CommitMessages (whose
\* own failure is reported), and back to the select
ConsumerAck ==
    /\ consumer.pc = "ack"
    /\ \E commitFails \in BOOLEAN :
         consumer' =
             IF consumer.err # NoError
             THEN [consumer EXCEPT !.pc = "select",
                                   !.reports = @ \cup {<<"process", consumer.offset>>}]
             ELSE IF commitFails
             THEN [consumer EXCEPT !.pc = "select",
                                   !.commits = @ \cup {consumer.offset},
                                   !.reports = @ \cup {<<"commit", consumer.offset>>}]
             ELSE [consumer EXCEPT !.pc = "select",
                                   !.commits = @ \cup {consumer.offset},
                                   !.committed = @ \cup {consumer.offset}]
    /\ UNCHANGED <<aggVars, now, nextUuid, ucVars>>

NextConsumer ==
    \/ ContextCancel
    \/ ConsumerFetch
    \/ ConsumerProcess
    \/ ConsumerAck

SpecConsumer == InitConsumer /\ [][NextConsumer]_vars

\* a log of orders created and of cancellations of an order not stored
LiveMessages ==
    {MessageOf(ToEvent(NewOrder(1, 500, EmailTest, 1), "order.created", 30, 2)),
     MessageOf(ToEvent(NewOrder(2, 501, EmailTest, 1), "order.cancelled", 31, 2))}

\* the goroutine running Start is scheduled: each step of the loop that can
\* be taken is taken in the end
InitConsumerLive ==
    /\ order = NilOrder
    /\ ret = NoCall
    /\ now = LaterTime
    /\ nextUuid = LaterTime
    /\ store = (1 :> StoredInStatus(OrderStatusPending, LaterTime))
    /\ proc = [p \in Procs |-> Idle]
    /\ result = NoResult
    /\ transport \in UNION {[1..n -> LiveMessages] : n \in 1..MaxLog}
    /\ publishErrors = {}
    /\ execs = 0
    /\ consumer = NewConsumer

SpecConsumerLive ==
    /\ InitConsumerLive
    /\ [][NextConsumer]_vars
    /\ WF_vars(ConsumerFetch)
    /\ WF_vars(ConsumerProcess)
    /\ WF_vars(ConsumerAck)

(***************************************************************************)
(* The repository alone: goroutines call OrderRepository.Create (a         *)
(* transaction of several statements), GetByID (three queries outside any  *)
(* transaction) and Delete (one guarded statement) on orders built         *)
(* beforehand.  proc[p].req holds a call's locals; result is what the last *)
(* call to return gave back.                                               *)
(***************************************************************************)
\* the orders handed to Create: one item; two items and a shipping address;
\* one item and both addresses
RepoOrders ==
    {BuildOrder(CreateRequest(EmailTest, <<ItemWidget>>, "", NilAddress), 30, LaterTime),
     BuildOrder(CreateRequest(EmailTest, <<ItemWidget, ItemGadget>>, "EUR", AddressReq),
                40, LaterTime),
     BuildOrder(CreateRequestFull, 50, LaterTime)}

RepoIds == {1} \cup {o.ID : o \in RepoOrders}

\* the statements of Create after BeginTx: the header, each item, each address
CreateStatements(o) ==
    1 + Len(o.Items) + (IF o.ShippingAddress # NilAddress THEN 1 ELSE 0)
      + (IF o.BillingAddress # NilAddress THEN 1 ELSE 0)

\* the rows of order o that exist in the transaction after its first k
\* statements (update_order_total_on_item_change rewrites the header's total
\* and stamp after each item)
TxRow(o, k, t) ==
    LET rows == ItemRows(o)
        n    == Len(rows)
        m    == IF k - 1 < n THEN k - 1 ELSE n
        hasShip == o.ShippingAddress # NilAddress
        final == CreatedRow(o, t)
    IN  [final EXCEPT
            !.Items = SubSeq(rows, 1, m),
            !.TotalCents = IF m = 0 THEN ToCents(o.TotalAmount) ELSE RowCentsSum(rows, m),
            !.UpdatedAt = IF m = 0 THEN o.UpdatedAt ELSE t,
            !.ShippingAddress = IF hasShip /\ k >= n + 2 THEN o.ShippingAddress
                                ELSE NilAddress,
            !.BillingAddress = IF k >= CreateStatements(o) THEN o.BillingAddress
                               ELSE NilAddress]

RepoResult(op, id, err) == [NoResult EXCEPT !.uc = op, !.orderID = id, !.err = err]

InitRepo ==
    /\ order = NilOrder
    /\ ret = NoCall
    /\ now = LaterTime
    /\ nextUuid = LaterTime
    /\ \E s \in Statuses : store = (1 :> StoredInStatus(s, LaterTime))
    /\ proc = [p \in Procs |-> Idle]
    /\ result = NoResult
    /\ transport = <<>>
    /\ publishErrors = {}
    /\ execs = 0
    /\ consumer = NewConsumer

\* OrderRepository.Create, lines 243-247: BeginTx
RepoCreateBegin(p, o) ==
    /\ proc[p].pc = "idle"
    /\ execs < MaxExecs
    /\ execs' = execs + 1
    /\ \E dbFails \in BOOLEAN :
         IF dbFails
         THEN /\ result' = RepoResult("Create", o.ID,
                               Wrap("failed to begin transaction", StorageError("begin")))
              /\ UNCHANGED proc
         ELSE /\ proc' = [proc EXCEPT ![p] = [Idle EXCEPT !.pc = "repo_create",
                                                          !.order = o,
                                                          !.req = [done |-> 0]]]
              /\ UNCHANGED result
    /\ UNCHANGED <<now, nextUuid, store, transport, publishErrors, aggVars, consumer>>

\* the statements of Create taking effect at once, outside a transaction
RepoCreateInsertAutocommit(p) ==
    /\ proc[p].pc = "repo_create"
    /\ proc[p].req.done < CreateStatements(proc[p].order)
    /\ \A q \in Procs \ {p} :
          ~(proc[q].pc = "repo_create" /\ proc[q].order.ID = proc[p].order.ID
              /\ proc[q].req.done > 0)
    /\ \E dbFails \in BOOLEAN :
         LET o == proc[p].order
             k == proc[p].req.done
         IN  IF dbFails \/ (k = 0 /\ o.ID \in DOMAIN store)
             THEN /\ proc' = [proc EXCEPT ![p] = Idle]
                  /\ result' = RepoResult("Create", o.ID,
                                   Wrap("failed to insert", StorageError("insert")))
                  /\ UNCHANGED store
             ELSE /\ proc' = [proc EXCEPT ![p].req.done = k + 1]
                  /\ store' = IF o.ID \in DOMAIN store
                              THEN [store EXCEPT ![o.ID] = TxRow(o, k + 1, now)]
                              ELSE store @@ (o.ID :> TxRow(o, k + 1, now))
                  /\ UNCHANGED result
    /\ UNCHANGED <<now, nextUuid, transport, publishErrors, execs, aggVars, consumer>>

\* OrderRepository.Create, lines 249-282: the next INSERT of the transaction
\* (header, item or address).  The header's INSERT waits while another
\* transaction holds the same id uncommitted and fails on a stored id; a
\* failing statement ends Create and the deferred Rollback drops the rows.
RepoCreateInsert(p) ==
    /\ proc[p].pc = "repo_create"
    /\ proc[p].req.done < CreateStatements(proc[p].order)
    /\ \A q \in Procs \ {p} :
          ~(proc[q].pc = "repo_create" /\ proc[q].order.ID = proc[p].order.ID
              /\ proc[q].req.done > 0)
    /\ \E dbFails \in BOOLEAN :
         LET o == proc[p].order
             k == proc[p].req.done
         IN  IF dbFails \/ (k = 0 /\ o.ID \in DOMAIN store)
             THEN /\ proc' = [proc EXCEPT ![p] = Idle]
                  /\ result' = RepoResult("Create", o.ID,
                                   Wrap("failed to insert", StorageError("insert")))
             ELSE /\ proc' = [proc EXCEPT ![p].req.done = k + 1]
                  /\ UNCHANGED result
    /\ UNCHANGED <<now, nextUuid, store, transport, publishErrors, execs, aggVars,
                   consumer>>

\* OrderRepository.Create, lines 284-289: Commit, where the deferred total
\* check runs; the rows become visible together or not at all
RepoCreateCommit(p) ==
    /\ proc[p].pc = "repo_create"
    /\ proc[p].req.done = CreateStatements(proc[p].order)
    /\ \E dbFails \in BOOLEAN :
         LET o == proc[p].order
         IN  IF dbFails \/ ~CreateTotalCheckPasses(o)
             THEN /\ result' = RepoResult("Create", o.ID,
                                   Wrap("failed to commit transaction",
                                        StorageError("commit")))
                  /\ UNCHANGED <<store, now>>
             ELSE /\ store' = IF o.ID \in DOMAIN store
                              THEN [store EXCEPT ![o.ID] = TxRow(o, CreateStatements(o),
                                                                 now + 1)]
                              ELSE store @@ (o.ID :> TxRow(o, CreateStatements(o),
                                                          now + 1))
                  /\ now' = now + 1
                  /\ result' = RepoResult("Create", o.ID, NoError)
    /\ proc' = [proc EXCEPT ![p] = Idle]
    /\ UNCHANGED <<nextUuid, transport, publishErrors, execs, aggVars, consumer>>

\* OrderRepository.GetByID, lines 294-307: the query of the orders row
RepoGetHeader(p, id) ==
    /\ proc[p].pc = "idle"
    /\ execs < MaxExecs
    /\ execs' = execs + 1
    /\ \E dbFails \in BOOLEAN :
         IF dbFails
         THEN /\ result' = RepoResult("GetByID", id,
                               Wrap("failed to get order", StorageError("get")))
              /\ UNCHANGED proc
         ELSE IF id \notin DOMAIN store
         THEN /\ result' = RepoResult("GetByID", id, NewOrderNotFoundError(id))
              /\ UNCHANGED proc
         ELSE /\ proc' = [proc EXCEPT ![p] =
                             [Idle EXCEPT !.pc = "repo_get_items",
                                          !.req = [id |-> id,
                                                   row |-> [store[id] EXCEPT
                                                       !.Items = <<>>,
                                                       !.ShippingAddress = NilAddress,
                                                       !.BillingAddress = NilAddress]]]]
              /\ UNCHANGED result
    /\ UNCHANGED <<now, nextUuid, store, transport, publishErrors, aggVars, consumer>>

\* OrderRepository.GetByID, lines 309-314: the query of the item rows
RepoGetItems(p) ==
    /\ proc[p].pc = "repo_get_items"
    /\ \E dbFails \in BOOLEAN :
         LET id == proc[p].req.id
         IN  IF dbFails
             THEN /\ proc' = [proc EXCEPT ![p] = Idle]
                  /\ result' = RepoResult("GetByID", id,
                                   Wrap("failed to get order items", StorageError("get")))
             ELSE /\ proc' = [proc EXCEPT ![p].pc = "repo_get_addresses",
                                          ![p].req.row.Items = store[id].Items]
                  /\ UNCHANGED result
    /\ UNCHANGED <<now, nextUuid, store, transport, publishErrors, execs, aggVars,
                   consumer>>

\* OrderRepository.GetByID, lines 316-335: the query of the address rows,
\* and the order returned
RepoGetAddresses(p) ==
    /\ proc[p].pc = "repo_get_addresses"
    /\ \E dbFails \in BOOLEAN :
         LET id  == proc[p].req.id
             row == [proc[p].req.row EXCEPT
                        !.ShippingAddress = store[id].ShippingAddress,
                        !.BillingAddress = store[id].BillingAddress]
         IN  result' =
                 IF dbFails
                 THEN RepoResult("GetByID", id,
                          Wrap("failed to get order addresses", StorageError("get")))
                 ELSE [RepoResult("GetByID", id, NoError) EXCEPT
                          !.order = OrderOfRow(id, row)]
    /\ proc' = [proc EXCEPT ![p] = Idle]
    /\ UNCHANGED <<now, nextUuid, store, transport, publishErrors, execs, aggVars,
                   consumer>>

\* Delete cancelling whatever the stored status is
RepoDeleteUnguarded(p, id) ==
    /\ proc[p].pc = "idle"
    /\ execs < MaxExecs
    /\ execs' = execs + 1
    /\ \E dbFails \in BOOLEAN :
         IF dbFails
         THEN /\ result' = RepoResult("Delete", id,
                               Wrap("failed to delete order", StorageError("delete")))
              /\ UNCHANGED <<store, now>>
         ELSE IF id \notin DOMAIN store
         THEN /\ result' = RepoResult("Delete", id, NewOrderNotFoundError(id))
              /\ UNCHANGED <<store, now>>
         ELSE /\ store' = [store EXCEPT ![id].Status = OrderStatusCancelled,
                                        ![id].UpdatedAt = now + 1]
              /\ now' = now + 1
              /\ result' = [RepoResult("Delete", id, NoError) EXCEPT
                                !.oldStatus = store[id].Status]
    /\ UNCHANGED <<nextUuid, proc, transport, publishErrors, aggVars, consumer>>

\* OrderRepository.Delete, lines 390-411: one UPDATE guarded by the stored
\* status; no row affected is reported as not found
RepoDelete(p, id) ==
    /\ proc[p].pc = "idle"
    /\ execs < MaxExecs
    /\ execs' = execs + 1
    /\ \E dbFails \in BOOLEAN :
         IF dbFails
         THEN /\ result' = RepoResult("Delete", id,
                               Wrap("failed to delete order", StorageError("delete")))
              /\ UNCHANGED <<store, now>>
         ELSE IF \/ id \notin DOMAIN store
                 \/ store[id].Status \in {OrderStatusDelivered, OrderStatusRefunded,
                                           OrderStatusCancelled}
         THEN /\ result' = RepoResult("Delete", id, NewOrderNotFoundError(id))
              /\ UNCHANGED <<store, now>>
         ELSE /\ store' = [store EXCEPT ![id].Status = OrderStatusCancelled,
                                        ![id].UpdatedAt = now + 1]
              /\ now' = now + 1
              /\ result' = [RepoResult("Delete", id, NoError) EXCEPT
                                !.oldStatus = store[id].Status]
    /\ UNCHANGED <<nextUuid, proc, transport, publishErrors, aggVars, consumer>>

NextRepo ==
    \E p \in Procs :
        \/ \E o \in RepoOrders : RepoCreateBegin(p, o)
        \/ RepoCreateInsert(p)
        \/ RepoCreateCommit(p)
        \/ \E id \in RepoIds : RepoGetHeader(p, id)
        \/ RepoGetItems(p)
        \/ RepoGetAddresses(p)
        \/ \E id \in RepoIds : RepoDelete(p, id)

SpecRepo == InitRepo /\ [][NextRepo]_vars

(***************************************************************************)
(* ListOrders: Execute is entered with a request (proc["h1"].req.given),   *)
(* validateAndSetDefaults rewrites it, and the filters go to the           *)
(* repository's List and Count.  The rows List returns are not modelled.   *)
(***************************************************************************)
\* a nil *float64
NilAmount == [nil |-> TRUE]

IsNilAmount(x) == "nil" \in DOMAIN x

\* x < 0 and x > y on float64 (false when an operand is NaN)
FLtZero(x) == ~IsNaN(x) /\ x.neg

FGreater(x, y) ==
    /\ ~IsNaN(x)
    /\ ~IsNaN(y)
    /\ IF x.neg # y.neg THEN y.neg
       ELSE IF x.neg THEN MagLess(x.mag, y.mag)
       ELSE MagLess(y.mag, x.mag)

validSortFields == <<"created_at", "updated_at", "total_amount", "status">>

\* the defaults validateAndSetDefaults writes into the request, lines 352-370
SetDefaultsNoCap(req) ==
    [req EXCEPT !.Limit = IF @ <= 0 THEN 20 ELSE @,
                !.Offset = IF @ < 0 THEN 0 ELSE @,
                !.SortBy = IF @ = "" THEN "created_at" ELSE @,
                !.SortOrder = IF @ = "" THEN "desc" ELSE @]

SetDefaults(req) ==
    LET limit == IF req.Limit <= 0 THEN 20 ELSE req.Limit
    IN  [req EXCEPT !.Limit = IF limit > 100 THEN 100 ELSE limit,
                    !.Offset = IF @ < 0 THEN 0 ELSE @,
                    !.SortBy = IF @ = "" THEN "created_at" ELSE @,
                    !.SortOrder = IF @ = "" THEN "desc" ELSE @]

\* the checks of validateAndSetDefaults on the rewritten request, lines 372-401
SortAndAmountErrorAnySortBy(req) ==
    IF req.SortOrder # "asc" /\ req.SortOrder # "desc"
    THEN NewValidationError(<<"sort_order must be 'asc' or 'desc'">>)
    ELSE IF ~IsNilAmount(req.MinAmount) /\ FLtZero(req.MinAmount)
    THEN NewValidationError(<<"min_amount cannot be negative">>)
    ELSE IF ~IsNilAmount(req.MaxAmount) /\ FLtZero(req.MaxAmount)
    THEN NewValidationError(<<"max_amount cannot be negative">>)
    ELSE IF /\ ~IsNilAmount(req.MinAmount)
            /\ ~IsNilAmount(req.MaxAmount)
            /\ FGreater(req.MinAmount, req.MaxAmount)
    THEN NewValidationError(<<"min_amount cannot be greater than max_amount">>)
    ELSE NoError

SortAndAmountErrorAnyRange(req) ==
    IF ~\E i \in 1..Len(validSortFields) : req.SortBy = validSortFields[i]
    THEN NewValidationError(<<"invalid sort_by field", req.SortBy>>)
    ELSE IF req.SortOrder # "asc" /\ req.SortOrder # "desc"
    THEN NewValidationError(<<"sort_order must be 'asc' or 'desc'">>)
    ELSE IF ~IsNilAmount(req.MinAmount) /\ FLtZero(req.MinAmount)
    THEN NewValidationError(<<"min_amount cannot be negative">>)
    ELSE IF ~IsNilAmount(req.MaxAmount) /\ FLtZero(req.MaxAmount)
    THEN NewValidationError(<<"max_amount cannot be negative">>)
    ELSE NoError

SortAndAmountError(req) ==
    IF ~\E i \in 1..Len(validSortFields) : req.SortBy = validSortFields[i]
    THEN NewValidationError(<<"invalid sort_by field", req.SortBy>>)
    ELSE IF req.SortOrder # "asc" /\ req.SortOrder # "desc"
    THEN NewValidationError(<<"sort_order must be 'asc' or 'desc'">>)
    ELSE IF ~IsNilAmount(req.MinAmount) /\ FLtZero(req.MinAmount)
    THEN NewValidationError(<<"min_amount cannot be negative">>)
    ELSE IF ~IsNilAmount(req.MaxAmount) /\ FLtZero(req.MaxAmount)
    THEN NewValidationError(<<"max_amount cannot be negative">>)
    ELSE IF /\ ~IsNilAmount(req.MinAmount)
            /\ ~IsNilAmount(req.MaxAmount)
            /\ FGreater(req.MinAmount, req.MaxAmount)
    THEN NewValidationError(<<"min_amount cannot be greater than max_amount">>)
    ELSE NoError

ListLimits == {0 - 1, 0, 1, 20, 100, 101, 500}

ListOffsets == {0 - 5, 0, 3}

ListSortBys == {validSortFields[i] : i \in 1..Len(validSortFields)} \cup {"", "id", "CREATED_AT"}

ListSortOrders == {"", "asc", "desc", "ASC"}

ListAmounts == {NilAmount, F_m0_5, F_0_0, F_0_1, F_0_2, F_NaN}

ListRequests ==
    [Limit : ListLimits, Offset : ListOffsets, SortBy : ListSortBys,
     SortOrder : ListSortOrders, MinAmount : ListAmounts, MaxAmount : ListAmounts]

\* the locals of an Execute entered with the request given
ListLocals(given) ==
    [given |-> given, req |-> given, listCalls |-> 0, countCalls |-> 0]

ListResult(locals, err) ==
    [uc |-> "ListOrders", err |-> err, given |-> locals.given, filters |-> locals.req,
     limit |-> locals.req.Limit, offset |-> locals.req.Offset,
     listCalls |-> locals.listCalls, countCalls |-> locals.countCalls]

InitList ==
    /\ order = NilOrder
    /\ ret = NoCall
    /\ now = 0
    /\ nextUuid = 1
    /\ store = <<>>
    /\ \E given \in ListRequests :
          proc = [p \in Procs |->
                     IF p = "h1"
                     THEN [Idle EXCEPT !.pc = "list_validate", !.req = ListLocals(given)]
                     ELSE Idle]
    /\ result = NoResult
    /\ transport = <<>>
    /\ publishErrors = {}
    /\ execs = 0
    /\ consumer = NewConsumer

\* ListOrdersUseCase.Execute, lines 296-300, with validateAndSetDefaults
ListOrdersValidate(p) ==
    /\ proc[p].pc = "list_validate"
    /\ LET req == SetDefaults(proc[p].req.given)
           err == SortAndAmountError(req)
           locals == [proc[p].req EXCEPT !.req = req]
       IN  IF err # NoError
           THEN /\ proc' = [proc EXCEPT ![p] = Idle]
                /\ result' = ListResult(locals, Wrap("validation failed", err))
           ELSE /\ proc' = [proc EXCEPT ![p].pc = "list_query", ![p].req = locals]
                /\ UNCHANGED result
    /\ UNCHANGED <<now, nextUuid, store, transport, publishErrors, execs, aggVars,
                   consumer>>

\* ListOrdersUseCase.Execute, lines 302-323: the filters and orderRepo.List
ListOrdersList(p) ==
    /\ proc[p].pc = "list_query"
    /\ \E dbFails \in BOOLEAN :
         LET locals == [proc[p].req EXCEPT !.listCalls = @ + 1]
         IN  IF dbFails
             THEN /\ proc' = [proc EXCEPT ![p] = Idle]
                  /\ result' = ListResult(locals, Wrap("failed to list orders",
                                                       StorageError("list")))
             ELSE /\ proc' = [proc EXCEPT ![p].pc = "list_count", ![p].req = locals]
                  /\ UNCHANGED result
    /\ UNCHANGED <<now, nextUuid, store, transport, publishErrors, execs, aggVars,
                   consumer>>

\* ListOrdersUseCase.Execute, lines 325-343: orderRepo.Count and the response
ListOrdersCount(p) ==
    /\ proc[p].pc = "list_count"
    /\ \E dbFails \in BOOLEAN :
         LET locals == [proc[p].req EXCEPT !.countCalls = @ + 1]
         IN  result' = ListResult(locals,
                           IF dbFails THEN Wrap("failed to count orders",
                                                StorageError("count"))
                           ELSE NoError)
    /\ proc' = [proc EXCEPT ![p] = Idle]
    /\ UNCHANGED <<now, nextUuid, store, transport, publishErrors, execs, aggVars,
                   consumer>>

NextList ==
    \E p \in Procs :
        \/ ListOrdersValidate(p)
        \/ ListOrdersList(p)
        \/ ListOrdersCount(p)

SpecList == InitList /\ [][NextList]_vars

(***************************************************************************)
(* Properties of the aggregate, checked under Spec.                        *)
(***************************************************************************)
\* the transition table as the specification prints it (section 4.1)
TransitionTable ==
    {<<"pending", "confirmed">>, <<"pending", "cancelled">>,
     <<"confirmed", "processing">>, <<"confirmed", "cancelled">>,
     <<"processing", "shipped">>, <<"processing", "cancelled">>,
     <<"shipped", "delivered">>, <<"delivered", "refunded">>}

ItemIdsOf(o) == {o.Items[i].ID : i \in 1..Len(o.Items)}

\* the exact (unrounded) value of price * quantity, and of the sum of these
ExactProduct(item) == ExactMulInt(item.Price, item.Quantity)

RECURSIVE ExactSum(_)
ExactSum(items) ==
    IF items = <<>> THEN FZero
    ELSE ExactAdd(ExactSum(SubSeq(items, 1, Len(items) - 1)),
                 ExactProduct(items[Len(items)]))

\* C1: UpdateStatus(to) on an order in status from succeeds and sets the
\* status to to exactly when (from, to) is in the transition table; for every
\* other pair it returns an error and the status stays from.
C1_UpdateStatusFollowsTable ==
    [][ret'.op = "UpdateStatus" =>
         IF <<order.Status, ret'.newStatus>> \in TransitionTable
         THEN ret'.err = NoError /\ order'.Status = ret'.newStatus
         ELSE ret'.err # NoError /\ order'.Status = order.Status]_vars

\* C1 witness: a shipped order refused the target cancelled
C1_Witness ==
    /\ ret.op = "UpdateStatus"
    /\ ret.newStatus = OrderStatusCancelled
    /\ ret.err # NoError
    /\ order.Status = OrderStatusShipped

\* C4: after each AddItem / RemoveItem, TotalAmount is the exact sum over the
\* current items of price*quantity and each item's Total is its exact
\* price*quantity.
C4_TotalIsExactSum ==
    /\ order.TotalAmount = ExactSum(order.Items)
    /\ \A i \in 1..Len(order.Items) : order.Items[i].Total = ExactProduct(order.Items[i])

\* C5: a failing UpdateStatus returns InvalidStatusTransition carrying the
\* current status as from and the requested status as to, and leaves the
\* whole order (status, update time, items, total, metadata) as it was.
C5_FailedUpdateStatusLeavesOrder ==
    [][(ret'.op = "UpdateStatus" /\ ret'.err # NoError) =>
         /\ ret'.err.Type = "INVALID_STATUS_TRANSITION"
         /\ ret'.err.FromStatus = order.Status
         /\ ret'.err.ToStatus = ret'.newStatus
         /\ order' = order]_vars

\* C5 witness: an order holding an item refused processing -> pending
C5_Witness ==
    /\ ret.op = "UpdateStatus"
    /\ ret.err.Type = "INVALID_STATUS_TRANSITION"
    /\ ret.err.FromStatus = OrderStatusProcessing
    /\ ret.err.ToStatus = OrderStatusPending
    /\ Len(order.Items) > 0

\* C6: cancelled and refunded are absorbing under every call; a delivered
\* order leaves delivered only for refunded.
C6_TerminalStatusesAbsorb ==
    [][/\ order.Status \in {OrderStatusCancelled, OrderStatusRefunded}
          => order'.Status = order.Status
       /\ (order.Status = OrderStatusDelivered /\ order'.Status # order.Status)
          => order'.Status = OrderStatusRefunded]_vars

\* C6 witness: an order that left delivered for refunded has since refused a call
C6_Witness ==
    /\ order.Status = OrderStatusRefunded
    /\ ret.op = "UpdateStatus"
    /\ ret.err # NoError

\* C7: AddItem with price <= 0 or quantity <= 0 adds no item and leaves the
\* items and the total unchanged.
C7_AddItemRejectsNonPositive ==
    [][(ret'.op = "AddItem" /\ (FLeqZero(ret'.price) \/ ret'.quantity <= 0)) =>
         /\ order'.Items = order.Items
         /\ order'.TotalAmount = order.TotalAmount]_vars

\* C8: RemoveItem with an id that is not among the items returns false and
\* leaves the item list, the total and the update time unchanged.
C8_RemoveUnknownItemIsNoOp ==
    [][(ret'.op = "RemoveItem" /\ ret'.itemID \notin ItemIdsOf(order)) =>
         /\ ret'.removed = FALSE
         /\ ret'.err = NoError
         /\ order'.Items = order.Items
         /\ order'.TotalAmount = order.TotalAmount
         /\ order'.UpdatedAt = order.UpdatedAt]_vars

\* C8 witness: a removal that found nothing on an order that holds an item
C8_Witness ==
    /\ ret.op = "RemoveItem"
    /\ ret.removed = FALSE
    /\ Len(order.Items) > 0
    /\ ret.itemID \notin ItemIdsOf(order)

(***************************************************************************)
(* Properties of the use cases, checked under SpecUC.                      *)
(***************************************************************************)
\* the items of an order as the request that created it names them
RequestedItems(items) ==
    {[ProductID |-> items[i].ProductID, Name |-> items[i].Name,
      Price |-> items[i].Price, Quantity |-> items[i].Quantity] :
        i \in 1..Len(items)}

\* o is the order some create request asks for
IsRequestedOrder(o) ==
    \E req \in CreateRequests :
        /\ o.CustomerID = req.CustomerID
        /\ o.Email = req.Email
        /\ Len(o.Items) = Len(req.Items)
        /\ RequestedItems(o.Items) = RequestedItems(req.Items)

\* C2: under any interleaving of UpdateOrderStatus executions on one order
\* id, every change of the order's stored status is a pair of the transition
\* table (a write computed from a stale read is never applied).
C2_StoredStatusChangesFollowTable ==
    [][\A id \in DOMAIN store :
          store'[id].Status # store[id].Status
              => <<store[id].Status, store'[id].Status>> \in TransitionTable]_vars

\* C3: two events of one order id reach the transport in the order in which
\* ToEvent built them (ToEvent stamps each event with the time it is built).
C3_TransportKeepsGenerationOrder ==
    \A i, j \in 1..Len(transport) :
        (i < j /\ transport[i].Key = transport[j].Key)
            => transport[i].Value.Timestamp < transport[j].Value.Timestamp

\* C9: when publishing order.created fails, CreateOrder still returns success
\* with the created order, the order stays stored, and a GetOrder on its id
\* that returns after the failure gives the order back (the one way it can
\* fail is a failing read of the storage, never "not found").  The result of
\* the failed publish is replaced only by a later return, so a GetOrder
\* result seen together with the recorded failure is a later one.
C9_PublishFailureKeepsCreatedOrder ==
    /\ (result.uc = "CreateOrder" /\ result.publishFailed) =>
          /\ result.err = NoError
          /\ result.order.ID = result.orderID
          /\ IsRequestedOrder(result.order)
          /\ result.orderID \in DOMAIN store
    /\ \A e \in publishErrors : e[1] = "order.created" => e[2] \in DOMAIN store
    /\ (result.uc = "GetOrder" /\ <<"order.created", result.orderID>> \in publishErrors) =>
          \/ /\ result.err = NoError
             /\ result.order.ID = result.orderID
             /\ IsRequestedOrder(result.order)
          \/ result.err = Wrap("failed to get order", StorageError("get"))

\* C9 witness: GetOrder gave back an order whose order.created was not published
C9_Witness ==
    /\ result.uc = "GetOrder"
    /\ result.err = NoError
    /\ <<"order.created", result.orderID>> \in publishErrors
    /\ result.order.ID = result.orderID

\* at every moment: a failed write comes with an error and no publisher call,
\* and the steps after the write are taken only with a successful write
WriteBeforePublish ==
    /\ result.repoWrite = "failed" =>
          (result.err # NoError /\ result.publishCalls = 0)
    /\ result.publishCalls > 0 => result.repoWrite = "ok"
    /\ (result.uc \in {"CreateOrder", "UpdateOrderStatus"} /\ result.err = NoError)
          => result.repoWrite = "ok"
    /\ \A p \in Procs :
          proc[p].pc \in {"create_event", "create_publish",
                          "update_event", "update_publish"}
              => proc[p].repoWrite = "ok"

\* C10: when the write of CreateOrder or UpdateOrderStatus fails, the use case
\* returns an error and its execution makes no call of the publisher; success
\* is reported, and the publisher is called, only after the execution's own
\* write returned success.
C10_NoPublishWithoutWrite ==
    /\ []WriteBeforePublish
    /\ [][(result' # result /\ result'.repoWrite = "failed")
            => (transport' = transport /\ publishErrors' = publishErrors)]_vars

\* C10 witness: an UpdateOrderStatus whose write failed has returned
C10_Witness ==
    /\ result.uc = "UpdateOrderStatus"
    /\ result.repoWrite = "failed"
    /\ result.err # NoError
    /\ result.orderID \in DOMAIN store

(***************************************************************************)
(* Properties of creation, checked under SpecCreate.                       *)
(***************************************************************************)
\* what the specification lets no create request be
RequestInvalid(req) ==
    \/ req.CustomerID = NilUuid
    \/ ~validateEmail(req.Email)
    \/ req.Items = <<>>
    \/ \E i \in 1..Len(req.Items) :
          \/ req.Items[i].ProductID = NilUuid
          \/ req.Items[i].Name = ""
          \/ FLeqZero(req.Items[i].Price)
          \/ req.Items[i].Quantity <= 0

\* an execution is at or past the repository's Create only with a request
\* and an order that pass their validations, and only such orders are stored
CreateOnlyValidated ==
    /\ \A p \in Procs :
          proc[p].pc \in {"create_persist", "create_event", "create_publish"}
              => (~RequestInvalid(proc[p].req) /\ Validate(proc[p].order) = NoError)
    /\ \A id \in DOMAIN store :
          store[id].CustomerID # NilUuid /\ store[id].Items # <<>>

\* C11: when the request's validation or the aggregate's Validate fails,
\* CreateOrder returns a validation error, the repository's Create is not
\* called and no event is published.
C11_InvalidCreateStopsBeforeWrite ==
    /\ []CreateOnlyValidated
    /\ [][(execs' = execs + 1 /\ result' # result /\ result'.uc = "CreateOrder")
            => /\ result'.err.Type = "VALIDATION_ERROR"
               /\ result'.repoWrite = "none"
               /\ result'.publishCalls = 0
               /\ store' = store
               /\ transport' = transport
               /\ publishErrors' = publishErrors]_vars

\* C11 witness: the aggregate's Validate refused an order whose request passed
C11_Witness ==
    /\ result.uc = "CreateOrder"
    /\ result.err.Type = "VALIDATION_ERROR"
    /\ result.err.Message[1] = "order validation failed"
    /\ store = <<>>
    /\ transport = <<>>

\* the address of an order against the address of a request
AddressAsRequested(address, r) ==
    IF r = NilAddress THEN address = NilAddress
    ELSE /\ address # NilAddress
         /\ address.Street = r.Street
         /\ address.City = r.City
         /\ address.State = r.State
         /\ address.Country = r.Country
         /\ address.ZipCode = r.ZipCode

\* o is the order the request asks for: pending, under a fresh id, with the
\* request's fields
AsRequested(o, req) ==
    /\ o.Status = "pending"
    /\ o.ID # NilUuid
    /\ o.CustomerID = req.CustomerID
    /\ o.Email = req.Email
    /\ o.Currency = (IF req.Currency = "" THEN "USD" ELSE req.Currency)
    /\ Len(o.Items) = Len(req.Items)
    /\ RequestedItems(o.Items) = RequestedItems(req.Items)
    /\ AddressAsRequested(o.ShippingAddress, req.ShippingAddress)
    /\ AddressAsRequested(o.BillingAddress, req.BillingAddress)
    /\ o.Metadata = req.Metadata

\* the order read back against the order CreateOrder returned
SameInputFields(got, created) ==
    /\ got.Status = "pending"
    /\ got.ID = created.ID
    /\ got.CustomerID = created.CustomerID
    /\ got.Email = created.Email
    /\ got.Currency = created.Currency
    /\ Len(got.Items) = Len(created.Items)
    /\ RequestedItems(got.Items) = RequestedItems(created.Items)
    /\ got.ShippingAddress = created.ShippingAddress
    /\ got.BillingAddress = created.BillingAddress
    /\ got.Metadata = created.Metadata

\* C18: a successful CreateOrder returns a pending order under a non-empty
\* id with the request's customer id, email, currency (USD when unset),
\* items, addresses and metadata, and a GetOrder on that id that follows it
\* and succeeds returns the order with the same id and the same fields.
C18_GetOrderReturnsCreatedOrder ==
    [][/\ \A p \in Procs :
            (proc[p].pc = "create_publish" /\ proc'[p].pc = "idle")
                => AsRequested(result'.order, proc[p].req)
       /\ ( /\ execs' = execs + 1
            /\ proc' = proc
            /\ result.uc = "CreateOrder"
            /\ result.err = NoError
            /\ result'.uc = "GetOrder"
            /\ result'.orderID = result.orderID
            /\ result'.err = NoError )
                => SameInputFields(result'.order, result.order)]_vars

(***************************************************************************)
(* Properties of the status update, checked under SpecUpdate.              *)
(***************************************************************************)
\* the step in which an UpdateOrderStatus execution returns before its write
RefusedBeforeWrite ==
    /\ execs' = execs + 1
    /\ result' # result
    /\ result'.uc = "UpdateOrderStatus"

\* the step in which goroutine p goes on from its read to its write
GoesOnToWrite(p) == proc[p].pc = "idle" /\ proc'[p].pc = "update_persist"

\* nothing written, nothing handed to the publisher
NothingWrittenOrPublished ==
    /\ result'.repoWrite = "none"
    /\ result'.publishCalls = 0
    /\ store' = store
    /\ transport' = transport
    /\ publishErrors' = publishErrors

\* C12: UpdateOrderStatus on an id that is not stored fails with OrderNotFound
\* (or with the error of a failing read of the storage), writes nothing and
\* publishes nothing.
C12_UnknownOrderIsNotFound ==
    [][/\ (RefusedBeforeWrite /\ result'.orderID # NilUuid
           /\ result'.newStatus \in Statuses
           /\ result'.orderID \notin DOMAIN store)
          => /\ result'.err.Type \in {"ORDER_NOT_FOUND", "STORAGE_ERROR"}
             /\ NothingWrittenOrPublished
       /\ \A p \in Procs :
             GoesOnToWrite(p) => proc'[p].req.OrderID \in DOMAIN store]_vars

\* C12 witness: an update of an id that is not stored returned OrderNotFound
C12_Witness ==
    /\ result.uc = "UpdateOrderStatus"
    /\ result.err.Type = "ORDER_NOT_FOUND"
    /\ result.orderID \notin DOMAIN store
    /\ result.repoWrite = "none"

\* C13: a target that is not allowed from the stored status makes
\* UpdateOrderStatus return an error (the transition's, unless the read of
\* the storage failed) without calling Update, with the stored order
\* unchanged and nothing published.
C13_RefusedTransitionWritesNothing ==
    [][/\ (RefusedBeforeWrite /\ result'.orderID \in DOMAIN store
           /\ result'.newStatus \in Statuses
           /\ <<store[result'.orderID].Status, result'.newStatus>> \notin TransitionTable)
          => /\ result'.err.Type \in {"INVALID_STATUS_TRANSITION", "STORAGE_ERROR"}
             /\ result'.err.Type = "INVALID_STATUS_TRANSITION"
                   => /\ result'.err.FromStatus = store[result'.orderID].Status
                      /\ result'.err.ToStatus = result'.newStatus
             /\ NothingWrittenOrPublished
       /\ \A p \in Procs :
             GoesOnToWrite(p)
                 => <<store[proc'[p].req.OrderID].Status, proc'[p].req.NewStatus>>
                        \in TransitionTable]_vars

\* C13 witness: a delivered order refused the target cancelled
C13_Witness ==
    /\ result.uc = "UpdateOrderStatus"
    /\ result.err.Type = "INVALID_STATUS_TRANSITION"
    /\ result.err.FromStatus = OrderStatusDelivered
    /\ result.err.ToStatus = OrderStatusCancelled
    /\ store[result.orderID].Status = OrderStatusDelivered
    /\ transport = <<>>

\* a returned update whose publish failed reports success, the pair of
\* statuses and one call of the publisher
FailedPublishStillSuccess ==
    (result.uc = "UpdateOrderStatus" /\ result.publishFailed) =>
        /\ result.err = NoError
        /\ result.repoWrite = "ok"
        /\ result.publishCalls = 1
        /\ result.oldStatus \in Statuses
        /\ result.newStatus \in Statuses
        /\ result.order.Status = result.newStatus

\* C14: when the publish of an UpdateOrderStatus fails after the update was
\* stored, the use case returns success with the old and the new status, the
\* store is left as it is (no rollback) and the publisher was called once.
C14_UpdatePublishFailureKeepsUpdate ==
    /\ []FailedPublishStillSuccess
    /\ [][\A p \in Procs :
            (proc[p].pc = "update_publish" /\ proc'[p].pc = "idle"
             /\ result'.publishFailed)
                => /\ store' = store
                   /\ transport' = transport
                   /\ result'.oldStatus = proc[p].oldStatus
                   /\ result'.newStatus = proc[p].req.NewStatus]_vars

\* C14 witness: the publish failed and the store holds the new status
C14_Witness ==
    /\ result.uc = "UpdateOrderStatus"
    /\ result.publishFailed
    /\ result.err = NoError
    /\ store[result.orderID].Status = result.newStatus
    /\ result.oldStatus # result.newStatus
    /\ transport = <<>>

\* the event type the specification gives for a target status
EventTypeOfTarget(newStatus) ==
    IF newStatus \in {OrderStatusConfirmed, OrderStatusCancelled, OrderStatusShipped,
                      OrderStatusDelivered, OrderStatusRefunded}
    THEN <<"order.", newStatus>>
    ELSE <<"order.", "status_changed">>

\* an event type, cut after its dot
EventTypeParts(eventType) ==
    CASE eventType = "order.confirmed" -> <<"order.", "confirmed">>
      [] eventType = "order.cancelled" -> <<"order.", "cancelled">>
      [] eventType = "order.shipped"   -> <<"order.", "shipped">>
      [] eventType = "order.delivered" -> <<"order.", "delivered">>
      [] eventType = "order.refunded"  -> <<"order.", "refunded">>
      [] eventType = "order.status_changed" -> <<"order.", "status_changed">>
      [] OTHER -> <<eventType>>

\* C15: the event type of a successful UpdateOrderStatus is given by the
\* target status alone: order.<target> for confirmed, cancelled, shipped,
\* delivered and refunded, order.status_changed for any other target.
C15_EventTypeFollowsTarget ==
    /\ \A p \in Procs :
          proc[p].pc = "update_publish"
              => EventTypeParts(proc[p].event.EventType)
                     = EventTypeOfTarget(proc[p].req.NewStatus)
    /\ \A i \in 1..Len(transport) :
          EventTypeParts(transport[i].Value.EventType)
              = EventTypeOfTarget(transport[i].Value.Status)

\* C15 witness: order.cancelled went out for a cancellation out of
\* processing and order.status_changed for the target processing
C15_Witness ==
    /\ \E i \in 1..Len(transport) :
          /\ transport[i].Value.EventType = "order.cancelled"
          /\ transport[i].Value.Data.old_status = OrderStatusProcessing
    /\ \E i \in 1..Len(transport) :
          /\ transport[i].Value.EventType = "order.status_changed"
          /\ transport[i].Value.Status = OrderStatusProcessing

\* C16: the event of a successful UpdateOrderStatus carries the new status,
\* the status the order was loaded with as old_status and the request's
\* reason as change_reason; the response names the same pair, which is a
\* pair of the transition table.
C16_EventCarriesTransition ==
    [][\A p \in Procs :
         /\ GoesOnToWrite(p) =>
               proc'[p].oldStatus = store[proc'[p].req.OrderID].Status
         /\ (proc[p].pc = "update_publish" /\ proc'[p].pc = "idle") =>
               /\ result'.err = NoError
               /\ result'.oldStatus = proc[p].oldStatus
               /\ result'.newStatus = proc[p].req.NewStatus
               /\ <<result'.oldStatus, result'.newStatus>> \in TransitionTable
               /\ transport' # transport =>
                     LET e == transport'[Len(transport')].Value
                     IN  /\ Len(transport') = Len(transport) + 1
                         /\ e.OrderID = proc[p].req.OrderID
                         /\ e.Status = proc[p].req.NewStatus
                         /\ e.Data.old_status = proc[p].oldStatus
                         /\ e.Data.change_reason = proc[p].req.Reason]_vars

\* C16 witness: the refund of a delivered order went out with its reason
C16_Witness ==
    /\ result.uc = "UpdateOrderStatus"
    /\ result.err = NoError
    /\ ~result.publishFailed
    /\ result.oldStatus = OrderStatusDelivered
    /\ result.newStatus = OrderStatusRefunded
    /\ transport # <<>>
    /\ transport[Len(transport)].Value.Data.change_reason = "customer request"
    /\ transport[Len(transport)].Value.Data.old_status = OrderStatusDelivered

CommittedIffProcessed ==
    /\ consumer.committed \subseteq consumer.commits
    /\ \A i \in 1..Len(consumer.handled) :
          LET h == consumer.handled[i]
          IN  (consumer.pc # "ack" \/ i < Len(consumer.handled))
                  => /\ (h.offset \in consumer.commits) <=> (h.err = NoError)
                     /\ h.err # NoError
                            => <<"process", h.offset>> \in consumer.reports

\* C20: Start hands a message to CommitMessages if and only if
\* processMessage returned no error for it; a processing error is reported,
\* commits nothing, does not end Start, and the loop is back at its select
\* with the next offset to fetch.
C20_CommitIffProcessed ==
    /\ []CommittedIffProcessed
    /\ [][consumer.pc = "ack" /\ consumer'.pc # "ack"
            => /\ consumer'.pc = "select"
               /\ consumer'.startErr = NoError
               /\ consumer'.position = consumer.offset + 1
               /\ (consumer.offset \in consumer'.commits) <=> (consumer.err = NoError)
               /\ consumer.err # NoError
                      => /\ <<"process", consumer.offset>> \in consumer'.reports
                         /\ consumer'.commits = consumer.commits
                         /\ consumer'.committed = consumer.committed]_vars

\* C20 witness: the first message failed and was reported, not committed,
\* and the loop went on to fetch, process and commit the second
C20_Witness ==
    /\ <<"process", 0>> \in consumer.reports
    /\ 0 \notin consumer.commits
    /\ 1 \in consumer.committed
    /\ consumer.pc = "select"
    /\ consumer.startErr = NoError

\* the handler the event type names
DispatchTarget(eventType) ==
    CASE eventType = "order.created"   -> "HandleOrderCreated"
      [] eventType = "order.confirmed" -> "HandleOrderConfirmed"
      [] eventType = "order.cancelled" -> "HandleOrderCancelled"
      [] eventType = "order.shipped"   -> "HandleOrderShipped"
      [] eventType = "order.delivered" -> "HandleOrderDelivered"
      [] eventType = "order.refunded"  -> "HandleOrderRefunded"
      [] OTHER                         -> "HandleGenericMessage"

\* C21: every message processMessage was given reached exactly the handler
\* its event-type header names (the generic handler for a missing, empty or
\* unrecognised type), and BatchConsumer's processMessage does the same with
\* it.
C21_DispatchByEventType ==
    \A i \in 1..Len(consumer.handled) :
        LET h       == consumer.handled[i]
            message == transport[h.offset + 1]
        IN  /\ h.handler = DispatchTarget(getHeaderValue(message.Headers, "event-type"))
            /\ \A dbFails \in BOOLEAN :
                  processMessageBatch(message, dbFails) = processMessage(message, dbFails)

(***************************************************************************)
(* Properties of the repository, checked under SpecRepo.                   *)
(***************************************************************************)
\* the step in which a Delete of id returns
DeleteReturns(id) ==
    /\ execs' = execs + 1
    /\ proc' = proc
    /\ result'.uc = "Delete"
    /\ result'.orderID = id

\* C22: Delete follows the state machine of UpdateStatus: it sets the stored
\* status to cancelled only from a status whose allowed set contains
\* cancelled (pending, confirmed, processing) and is refused, changing
\* nothing, from every other status.
C22_DeleteFollowsStateMachine ==
    [][\A id \in RepoIds :
          DeleteReturns(id)
              => IF /\ id \in DOMAIN store
                    /\ <<store[id].Status, OrderStatusCancelled>> \in TransitionTable
                 THEN result'.err = NoError
                          => store'[id].Status = OrderStatusCancelled
                 ELSE result'.err # NoError /\ store' = store]_vars

\* C23: Delete sets the stored status to cancelled exactly when the order is
\* stored in none of delivered, refunded, cancelled (and the statement does
\* not fail), touching nothing but the status and the update time; for an
\* order in one of those three statuses, or one that is not stored, nothing
\* changes and the error is OrderNotFound.
C23_DeleteGuardedByStatus ==
    [][\A id \in RepoIds :
          DeleteReturns(id)
              => IF /\ id \in DOMAIN store
                    /\ store[id].Status \notin {OrderStatusDelivered, OrderStatusRefunded,
                                                 OrderStatusCancelled}
                 THEN \/ /\ result'.err = NoError
                         /\ store' = [store EXCEPT
                                          ![id].Status = OrderStatusCancelled,
                                          ![id].UpdatedAt = store'[id].UpdatedAt]
                      \/ /\ result'.err.Type = "STORAGE_ERROR"
                         /\ store' = store
                 ELSE /\ store' = store
                      /\ result'.err.Type \in {"ORDER_NOT_FOUND", "STORAGE_ERROR"}]_vars

\* C23 witness: Delete of the stored order in status delivered reported not
\* found and left it delivered
C23_Witness ==
    /\ result.uc = "Delete"
    /\ result.orderID = 1
    /\ result.err.Type = "ORDER_NOT_FOUND"
    /\ 1 \in DOMAIN store
    /\ store[1].Status = OrderStatusDelivered

\* the order that was handed to Create under an id
GivenOrder(id) ==
    IF id = 1
    THEN BuildOrder(CreateRequest(EmailTest, <<ItemWidget>>, "", NilAddress), 1, 1)
    ELSE CHOOSE o \in RepoOrders : o.ID = id

\* every stored order has all its item rows and address rows, and so has
\* every order GetByID returned
StoredAndReadWhole ==
    /\ \A id \in DOMAIN store :
          /\ store[id].Items = ItemRows(GivenOrder(id))
          /\ store[id].ShippingAddress = GivenOrder(id).ShippingAddress
          /\ store[id].BillingAddress = GivenOrder(id).BillingAddress
    /\ (result.uc = "GetByID" /\ result.err = NoError)
          => /\ Len(result.order.Items) = Len(GivenOrder(result.orderID).Items)
             /\ result.order.ShippingAddress = GivenOrder(result.orderID).ShippingAddress
             /\ result.order.BillingAddress = GivenOrder(result.orderID).BillingAddress

ListSeen ==
    IF proc["h1"].pc # "idle" THEN proc["h1"].req
    ELSE [given |-> result.given, req |-> result.filters,
          listCalls |-> result.listCalls, countCalls |-> result.countCalls]

ListReturned == proc["h1"].pc = "idle"

\* x is above y, as numbers
Above(x, y) ==
    LET d == ExactAdd(x, MkFloat(~y.neg, y.mag))
    IN  ~d.neg /\ d.mag # MagZero

IsNumber(x) == ~IsNilAmount(x) /\ ~IsNaN(x)

\* the amount bounds the request gives are out of range: one is negative, or
\* the minimum is above the maximum
BadAmounts(given) ==
    \/ IsNumber(given.MinAmount) /\ Above(FZero, given.MinAmount)
    \/ IsNumber(given.MaxAmount) /\ Above(FZero, given.MaxAmount)
    \/ /\ IsNumber(given.MinAmount)
       /\ IsNumber(given.MaxAmount)
       /\ Above(given.MinAmount, given.MaxAmount)

\* C25: a ListOrders request whose min_amount is negative, whose max_amount
\* is negative, or whose min_amount is above its max_amount, is rejected with
\* a validation error, and neither List nor Count is called for it.
C25_BadAmountsRejectedBeforeRepository ==
    BadAmounts(ListSeen.given)
        => /\ ListSeen.listCalls = 0
           /\ ListSeen.countCalls = 0
           /\ ListReturned => result.err.Type = "VALIDATION_ERROR"

\* C25 witness: a request with min_amount 0.2 and max_amount 0.1, otherwise
\* valid, was rejected
C25_Witness ==
    /\ ListReturned
    /\ result.given.MinAmount = F_0_2
    /\ result.given.MaxAmount = F_0_1
    /\ result.given.SortBy = "status"
    /\ result.given.SortOrder = "asc"
    /\ result.err.Type = "VALIDATION_ERROR"
    /\ result.listCalls = 0

\* the limit and the offset the spec gives for a request
PageLimit(given) ==
    IF given.Limit <= 0 THEN 20 ELSE IF given.Limit > 100 THEN 100 ELSE given.Limit

PageOffset(given) == IF given.Offset < 0 THEN 0 ELSE given.Offset

\* C26: the filters that reach the repository, and the limit and offset of
\* the response, have 1 <= limit <= 100 and offset >= 0: a limit <= 0 became
\* 20, a limit above 100 became 100, a negative offset became 0, and any
\* other value is the request's.
C26_PaginationIsNormalised ==
    /\ ListSeen.listCalls > 0
          => /\ ListSeen.req.Limit \in 1..100
             /\ ListSeen.req.Offset >= 0
             /\ ListSeen.req.Limit = PageLimit(ListSeen.given)
             /\ ListSeen.req.Offset = PageOffset(ListSeen.given)
    /\ (ListReturned /\ result.err = NoError)
          => /\ result.limit = PageLimit(result.given)
             /\ result.offset = PageOffset(result.given)
             /\ result.listCalls = 1
             /\ result.countCalls = 1

\* C26 witness: a request with limit 500 and offset -5 was answered with
\* limit 100 and offset 0
C26_Witness ==
    /\ ListReturned
    /\ result.err = NoError
    /\ result.given.Limit = 500
    /\ result.given.Offset = 0 - 5
    /\ result.limit = 100
    /\ result.offset = 0

SortFields == {"created_at", "updated_at", "total_amount", "status"}

\* C27: the filters that reach the repository have sort_by in the allow-list
\* and sort_order asc or desc, an empty one replaced by created_at and desc;
\* a request with any other sort_by or sort_order is rejected with a
\* validation error and the repository is not called.
C27_SortIsAllowListed ==
    /\ ListSeen.listCalls > 0
          => /\ ListSeen.req.SortBy \in SortFields
             /\ ListSeen.req.SortOrder \in {"asc", "desc"}
             /\ ListSeen.req.SortBy =
                    (IF ListSeen.given.SortBy = "" THEN "created_at"
                     ELSE ListSeen.given.SortBy)
             /\ ListSeen.req.SortOrder =
                    (IF ListSeen.given.SortOrder = "" THEN "desc"
                     ELSE ListSeen.given.SortOrder)
    /\ ( \/ ListSeen.given.SortBy \notin SortFields \cup {""}
         \/ ListSeen.given.SortOrder \notin {"asc", "desc", ""} )
          => /\ ListSeen.listCalls = 0
             /\ ListSeen.countCalls = 0
             /\ ListReturned => result.err.Type = "VALIDATION_ERROR"

\* C27 witness: a request naming no sort reached the repository sorted by
\* created_at desc
C27_Witness ==
    /\ ListReturned
    /\ result.err = NoError
    /\ result.given.SortBy = ""
    /\ result.given.SortOrder = ""
    /\ result.filters.SortBy = "created_at"
    /\ result.filters.SortOrder = "desc"

(***************************************************************************)
(* The aggregate's pure methods, Validate and ToEvent, applied to orders   *)
(* of every shape: each field empty or set, items valid or failing each    *)
(* item check, the total as calculateTotal leaves it or zero, every status.*)
(***************************************************************************)
\* an item as AddItem builds it
EntityItem(id, price, quantity) ==
    [ID |-> id, OrderID |-> 1, ProductID |-> 100, Name |-> "Widget",
     Price |-> price, Quantity |-> quantity, Total |-> FMulInt(price, quantity)]

EntityItemsValid == {EntityItem(11, F_0_1, 1), EntityItem(12, F_0_2, 3)}

EntityItems ==
    LET good == EntityItem(11, F_0_1, 1)
    IN  EntityItemsValid \cup
        {[good EXCEPT !.ID = NilUuid],
         [good EXCEPT !.ProductID = NilUuid],
         [good EXCEPT !.Name = ""],
         EntityItem(11, F_0_0, 1),
         EntityItem(11, F_m0_5, 1),
         EntityItem(11, F_0_1, 0),
         EntityItem(11, F_0_1, 0 - 1),
         [good EXCEPT !.Total = F_0_2],
         EntityItem(11, F_NaN, 1),
         [good EXCEPT !.ID = NilUuid, !.Name = ""],
         EntityItem(11, F_0_0, 0)}

EntityItemLists ==
    {<<>>} \cup {<<a>> : a \in EntityItems}
           \cup {<<a, b>> : a \in EntityItems, b \in EntityItems}

\* an order holding the items, its total calculated
EntityOrder(items) ==
    calculateTotal([NewOrder(1, 500, EmailTest, 1) EXCEPT !.Items = items])

EntityOrders ==
    {[EntityOrder(items) EXCEPT !.ID = id, !.CustomerID = c, !.Email = e,
                                !.TotalAmount = IF zeroed THEN FZero ELSE @] :
        id \in {NilUuid, 1}, c \in {NilUuid, 500}, e \in {<<>>, EmailTest},
        zeroed \in BOOLEAN, items \in EntityItemLists}
    \cup
    {[EntityOrder(items) EXCEPT !.Status = s] :
        s \in Statuses,
        items \in {<<>>, <<EntityItem(11, F_0_1, 1)>>,
                   <<EntityItem(11, F_0_1, 1), EntityItem(12, F_0_2, 3)>>}}

EntityEventTypes == {"order.created", "order.cancelled", ""}

\* what a method of the aggregate returned
EntityCall(op, eventType, event, err) ==
    [op |-> op, eventType |-> eventType, event |-> event, err |-> err]

InitEntity ==
    /\ order \in EntityOrders
    /\ ret = NoCall
    /\ now = LaterTime
    /\ nextUuid = LaterTime
    /\ consumer = NewConsumer
    /\ InitUseCases

ValidateCall ==
    /\ ret' = EntityCall("Validate", "", NoEvent, Validate(order))
    /\ UNCHANGED <<order, now, nextUuid, ucVars, consumer>>

ToEventCall(eventType) ==
    /\ execs < MaxExecs
    /\ execs' = execs + 1
    /\ ret' = EntityCall("ToEvent", eventType,
                         ToEvent(order, eventType, nextUuid, now + 1), NoError)
    /\ nextUuid' = nextUuid + 1
    /\ now' = now + 1
    /\ UNCHANGED <<order, store, proc, result, transport, publishErrors, consumer>>

IsActiveCall ==
    /\ ret' = [op |-> "IsActive", value |-> IsActive(order)]
    /\ UNCHANGED <<order, now, nextUuid, ucVars, consumer>>

IsFinalCall ==
    /\ ret' = [op |-> "IsFinal", value |-> IsFinal(order)]
    /\ UNCHANGED <<order, now, nextUuid, ucVars, consumer>>

NextEntity ==
    \/ ValidateCall
    \/ \E eventType \in EntityEventTypes : ToEventCall(eventType)
    \/ IsActiveCall
    \/ IsFinalCall

SpecEntity == InitEntity /\ [][NextEntity]_vars

\* the rules of the validation an order breaks, numbered in the order the
\* validation is to report them: 1 id, 2 customer id, 3 e-mail, 4 at least
\* one item, 5 positive total, then 5 + i for the i-th item
ItemIsValid(item) ==
    /\ item.ID # NilUuid
    /\ item.ProductID # NilUuid
    /\ item.Name # ""
    /\ ~IsNaN(item.Price) /\ Above(item.Price, FZero)
    /\ item.Quantity > 0
    /\ item.Total = FMulInt(item.Price, item.Quantity)

BrokenRules(o) ==
    {r \in 1..(5 + Len(o.Items)) :
        \/ r = 1 /\ o.ID = NilUuid
        \/ r = 2 /\ o.CustomerID = NilUuid
        \/ r = 3 /\ o.Email = <<>>
        \/ r = 4 /\ o.Items = <<>>
        \/ r = 5 /\ ~IsNaN(o.TotalAmount) /\ ~Above(o.TotalAmount, FZero)
        \/ r > 5 /\ ~ItemIsValid(o.Items[r - 5])}

\* the rule an error of the validation names, 0 for no error
ReportedRule(err) ==
    IF err = NoError THEN 0
    ELSE IF err.Message = <<"order ID cannot be empty">> THEN 1
    ELSE IF err.Message = <<"customer ID cannot be empty">> THEN 2
    ELSE IF err.Message = <<"email cannot be empty">> THEN 3
    ELSE IF err.Message = <<"order must have at least one item">> THEN 4
    ELSE IF err.Message = <<"total amount must be greater than zero">> THEN 5
    ELSE IF err.Message[1] = "item" /\ err.Message[2] = "0" THEN 6
    ELSE IF err.Message[1] = "item" /\ err.Message[2] = "1" THEN 7
    ELSE 0 - 1

\* C28: Validate rejects an order with no items, accepts an order with an
\* id, a customer, an e-mail and one valid item, and for an order breaking
\* several rules returns the validation error of the first broken one in
\* the order id, customer id, e-mail, at least one item, positive total,
\* then the items in their order.
C28_ValidateReportsFirstViolation ==
    ret.op = "Validate" =>
        /\ order.Items = <<>> => ret.err # NoError
        /\ (/\ order.ID # NilUuid /\ order.CustomerID # NilUuid
            /\ order.Email # <<>>
            /\ Len(order.Items) = 1 /\ ItemIsValid(order.Items[1])
            /\ order.TotalAmount = order.Items[1].Total)
           => ret.err = NoError
        /\ BrokenRules(order) # {} =>
            /\ ret.err.Type = "VALIDATION_ERROR"
            /\ ReportedRule(ret.err) \in BrokenRules(order)
            /\ \A r \in BrokenRules(order) : ReportedRule(ret.err) <= r

\* an order with a zero total and a bad second item was refused for its total
C28_Witness ==
    /\ ret.op = "Validate"
    /\ BrokenRules(order) = {5, 7}
    /\ ReportedRule(ret.err) = 5

\* the quantities of the items added up
RECURSIVE TotalQuantity(_)
TotalQuantity(items) ==
    IF items = <<>> THEN 0 ELSE Head(items).Quantity + TotalQuantity(Tail(items))

\* a step in which ToEvent(eventType) returns
ToEventReturns(eventType) ==
    /\ execs' = execs + 1
    /\ ret'.op = "ToEvent"
    /\ ret'.eventType = eventType

\* C30: ToEvent(eventType) returns an event of type eventType whose order
\* id, customer id, status, total amount and currency are those of the
\* order when it was called, whose event id is not nil, whose data.email is
\* the order's e-mail and whose data.item_count is the sum of the items'
\* quantities; the order is left as it was.
C30_ToEventCopiesOrder ==
    [][\A eventType \in EntityEventTypes :
        ToEventReturns(eventType) =>
            /\ ret'.event.EventType = eventType
            /\ ret'.event.EventID # NilUuid
            /\ ret'.event.OrderID = order.ID
            /\ ret'.event.CustomerID = order.CustomerID
            /\ ret'.event.Status = order.Status
            /\ ret'.event.TotalAmount = order.TotalAmount
            /\ ret'.event.Currency = order.Currency
            /\ ret'.event.Data.email = order.Email
            /\ ret'.event.Data.item_count = TotalQuantity(order.Items)
            /\ order' = order]_vars

\* a shipped order with two lines of one and three units gave an event
\* counting four items
C30_Witness ==
    /\ ret.op = "ToEvent"
    /\ ret.eventType = "order.cancelled"
    /\ order.Status = OrderStatusShipped
    /\ Len(order.Items) = 2
    /\ ret.event.Data.item_count = 4
    /\ ret.event.Status = OrderStatusShipped

(***************************************************************************)
(* NewOrder called on its own, next to executions of CreateOrder, which    *)
(* calls it to build the order it stores.                                  *)
(***************************************************************************)
NewOrderCall(customerID, email) ==
    /\ execs < MaxExecs
    /\ execs' = execs + 1
    /\ order' = NewOrder(nextUuid, customerID, email, now + 1)
    /\ ret' = [op |-> "NewOrder", customerID |-> customerID, email |-> email]
    /\ nextUuid' = nextUuid + 1
    /\ now' = now + 1
    /\ UNCHANGED <<store, proc, result, transport, publishErrors, consumer>>

NextNewOrder ==
    \/ \E customerID \in {NilUuid, 500}, email \in {<<>>, EmailTest} :
            NewOrderCall(customerID, email)
    \/ \E p \in Procs :
        \/ \E req \in CreateRequests : CreateOrderBegin(p, req)
        \/ CreateOrderPersist(p)
        \/ CreateOrderToEvent(p)
        \/ CreateOrderPublish(p)

SpecNewOrder == InitUC /\ [][NextNewOrder]_vars

\* a step in which NewOrder(customerID, email) returns
NewOrderReturns(customerID, email) ==
    /\ order' # order
    /\ ret'.op = "NewOrder"
    /\ ret'.customerID = customerID
    /\ ret'.email = email

\* C29: the order NewOrder returns is pending, has a non-nil id, the given
\* customer id and e-mail, currency USD, no items and a total of 0; every
\* order CreateOrder writes to the store is written with status pending.
C29_NewOrdersArePending ==
    [][/\ \A customerID \in {NilUuid, 500}, email \in {<<>>, EmailTest} :
            NewOrderReturns(customerID, email) =>
                /\ order'.Status = OrderStatusPending
                /\ order'.ID # NilUuid
                /\ order'.CustomerID = customerID
                /\ order'.Email = email
                /\ order'.Currency = "USD"
                /\ order'.Items = <<>>
                /\ order'.TotalAmount = FZero
       /\ \A id \in DOMAIN store' \ DOMAIN store :
            store'[id].Status = OrderStatusPending]_vars

\* NewOrder has returned an order and CreateOrder has stored another
C29_Witness ==
    /\ ret.op = "NewOrder"
    /\ order.Status = OrderStatusPending
    /\ order.Email = EmailTest
    /\ \E id \in DOMAIN store :
        /\ id # order.ID
        /\ store[id].Status = OrderStatusPending
        /\ store[id].Email = EmailTest

\* C31: IsFinal is true exactly for delivered, cancelled and refunded, false
\* for pending, confirmed, processing and shipped, and IsActive is its
\* negation for every status.
C31_FinalAndActive ==
    LET final == order.Status \in {OrderStatusDelivered, OrderStatusCancelled,
                                   OrderStatusRefunded}
    IN  /\ ret.op = "IsFinal" =>
            /\ ret.value = final
            /\ ret.value = ~IsActive(order)
        /\ ret.op = "IsActive" =>
            /\ ret.value = ~final
            /\ ret.value = ~IsFinal(order)

\* a delivered order was reported final
C31_Witness ==
    /\ ret.op = "IsFinal"
    /\ order.Status = OrderStatusDelivered
    /\ ret.value

\* C36: IsFinal is true of an order if and only if its status is terminal,
\* that is, no UpdateStatus call with any target can succeed on it.
C36_FinalIffTerminal ==
    IsFinal(order) <=> \A s \in Statuses : UpdateStatusErr(order, s) # NoError

(***************************************************************************)
(* One order fresh from NewOrder and a caller that keeps calling           *)
(* UpdateStatus with any target, noting the statuses the calls entered.    *)
(***************************************************************************)
MaxCalls == 7

InitStatus ==
    /\ order = NewOrder(1, 500, EmailTest, 1)
    /\ now = 1
    /\ nextUuid = 2
    /\ ret = [op |-> "none", newStatus |-> "", err |-> NoError, entered |-> <<>>]
    /\ consumer = NewConsumer
    /\ InitUseCases

UpdateStatusCall(newStatus) ==
    /\ execs < MaxCalls
    /\ execs' = execs + 1
    /\ order' = UpdateStatusOrder(order, newStatus, now + 1)
    /\ now' = IF canTransitionTo(order, newStatus) THEN now + 1 ELSE now
    /\ ret' = [op |-> "UpdateStatus", newStatus |-> newStatus,
               err |-> UpdateStatusErr(order, newStatus),
               entered |-> IF UpdateStatusErr(order, newStatus) = NoError
                           THEN Append(ret.entered, newStatus)
                           ELSE ret.entered]
    /\ UNCHANGED <<nextUuid, store, proc, result, transport, publishErrors, consumer>>

NextStatus == \E s \in Statuses \cup {""} : UpdateStatusCall(s)

SpecStatus == InitStatus /\ [][NextStatus]_vars

\* C32: starting from pending, in any sequence of UpdateStatus calls no
\* status is entered twice, pending is never re-entered, and at most five
\* calls succeed.
C32_StatusProgressesMonotonically ==
    /\ \A i, j \in 1..Len(ret.entered) : ret.entered[i] = ret.entered[j] => i = j
    /\ \A i \in 1..Len(ret.entered) : ret.entered[i] # OrderStatusPending
    /\ Len(ret.entered) <= 5
    /\ order.Status = IF ret.entered = <<>> THEN OrderStatusPending
                      ELSE ret.entered[Len(ret.entered)]

\* the longest path was taken and a sixth call was refused
C32_Witness ==
    /\ ret.entered = <<OrderStatusConfirmed, OrderStatusProcessing, OrderStatusShipped,
                       OrderStatusDelivered, OrderStatusRefunded>>
    /\ ret.op = "UpdateStatus"
    /\ ret.err # NoError

\* the committed offset of the partition: CommitMessages stores the offset
\* after the message's, which stands for every offset before it
CommittedOffset(c) ==
    IF c.committed = {} THEN 0
    ELSE 1 + CHOOSE o \in c.committed : \A other \in c.committed : other <= o

\* the message at the offset was given to processMessage and failed, and no
\* later processing of it succeeded
FailedForGood(c, offset) ==
    \E i \in 1..Len(c.handled) :
        /\ c.handled[i].offset = offset
        /\ c.handled[i].err # NoError
        /\ \A j \in (i + 1)..Len(c.handled) :
              c.handled[j].offset = offset => c.handled[j].err # NoError

\* C33: the committed offset of the partition does not move past a message
\* whose processing failed in Start unless that message itself is later
\* processed successfully.
C33_FailedMessageStaysUncommitted ==
    \A offset \in 0..(Len(transport) - 1) :
        FailedForGood(consumer, offset) => CommittedOffset(consumer) <= offset

\* Start has returned the context's error
StartReturnedCancelled ==
    /\ consumer.pc = "returned"
    /\ consumer.startErr = ContextCanceled

\* C38: once the context passed to Start is cancelled, Start eventually
\* returns with the context's error, failing fetches included, and no
\* message is given to a handler after Start has seen the cancellation.
C38_StartReturnsAfterCancel ==
    /\ consumer.ctxDone ~> StartReturnedCancelled
    /\ [][consumer.pc = "returned" =>
            /\ consumer'.pc = "returned"
            /\ consumer'.handled = consumer.handled
            /\ consumer'.commits = consumer.commits]_vars

\* Start returned the context's error with a message of the log unread
C38_Witness ==
    /\ StartReturnedCancelled
    /\ consumer.ctxDone
    /\ consumer.position < Len(transport)
    /\ <<"read", consumer.position>> \in consumer.reports

(***************************************************************************)
(* BatchConsumer.StartBatch over a topic log: messages are fetched into a  *)
(* buffer, the buffer is processed when it holds batchSize messages or     *)
(* when the context is cancelled.                                          *)
(***************************************************************************)
NewBatchConsumer(batchSize) ==
    [pc        |-> "select",   \* where StartBatch is: select, batch, returned
     batchSize |-> batchSize,
     ctxDone   |-> FALSE,
     position  |-> 0,          \* the offset FetchMessage gives next
     messages  |-> <<>>,       \* the offsets of the buffered messages
     handled   |-> <<>>,       \* the processMessage calls made, in order
     commits   |-> {},         \* the offsets handed to CommitMessages
     committed |-> {},         \* the offsets CommitMessages accepted
     reports   |-> {},         \* the errors printed: <<what, offset>>
     startErr  |-> NoError]

\* processBatch, lines 248-254: processMessage on the first k messages of
\* the batch, in order
RECURSIVE BatchCalls(_, _, _)
BatchCalls(batch, dbFails, k) ==
    IF k = 0 THEN <<>>
    ELSE Append(BatchCalls(batch, dbFails, k - 1),
                [offset |-> batch[k]]
                    @@ processMessageBatch(transport[batch[k] + 1], dbFails[k]))

\* processBatch committing the whole batch
processBatchCommitAll(c, calls, commitFails) ==
    LET batch   == c.messages
        failed  == {calls[i].offset : i \in {j \in 1..Len(batch) : calls[j].err # NoError}}
        successfulMessages == {batch[i] : i \in 1..Len(batch)}
    IN  [c EXCEPT
            !.handled   = @ \o calls,
            !.commits   = @ \cup successfulMessages,
            !.committed = IF commitFails THEN @ ELSE @ \cup successfulMessages,
            !.reports   = @ \cup {<<"process", o>> : o \in failed}
                            \cup (IF commitFails /\ successfulMessages # {}
                                  THEN {<<"commit", batch[1]>>} ELSE {})]

\* BatchConsumer.processBatch on the buffered messages, calls being what
\* processMessage did for each of them
processBatch(c, calls, commitFails) ==
    LET batch   == c.messages
        failed  == {calls[i].offset : i \in {j \in 1..Len(batch) : calls[j].err # NoError}}
        successfulMessages == {batch[i] : i \in 1..Len(batch)} \ failed
    IN  [c EXCEPT
            !.handled   = @ \o calls,
            !.commits   = @ \cup successfulMessages,
            !.committed = IF commitFails THEN @ ELSE @ \cup successfulMessages,
            !.reports   = @ \cup {<<"process", o>> : o \in failed}
                            \cup (IF commitFails /\ successfulMessages # {}
                                  THEN {<<"commit", batch[1]>>} ELSE {})]

BatchMessages ==
    LiveMessages \cup
    {MessageOf(ToEvent(NewOrder(1, 500, EmailTest, 1), "order.cancelled", 32, 2))}

InitBatch ==
    /\ order = NilOrder
    /\ ret = NoCall
    /\ now = LaterTime
    /\ nextUuid = LaterTime
    /\ store = (1 :> StoredInStatus(OrderStatusPending, LaterTime))
    /\ proc = [p \in Procs |-> Idle]
    /\ result = NoResult
    /\ transport \in UNION {[1..n -> BatchMessages] : n \in 1..(MaxLog + 1)}
    /\ publishErrors = {}
    /\ execs = 0
    /\ \E batchSize \in 1..MaxBatch : consumer = NewBatchConsumer(batchSize)

\* StartBatch, the ctx.Done() case: process what is buffered and return
BatchReturn ==
    /\ consumer.pc = "select"
    /\ consumer.ctxDone
    /\ \E dbFails \in [1..Len(consumer.messages) -> BOOLEAN], commitFails \in BOOLEAN :
       \E calls \in {BatchCalls(consumer.messages, dbFails, Len(consumer.messages))} :
         consumer' = [(IF Len(consumer.messages) > 0
                       THEN processBatch(consumer, calls, commitFails)
                       ELSE consumer)
                         EXCEPT !.pc = "returned", !.messages = <<>>,
                                !.startErr = ContextCanceled]
    /\ UNCHANGED <<aggVars, now, nextUuid, ucVars>>

\* StartBatch, the default case: FetchMessage and append
BatchFetch ==
    /\ consumer.pc = "select"
    /\ ~consumer.ctxDone
    /\ \E fetchFails \in BOOLEAN :
         IF fetchFails
         THEN consumer' = [consumer EXCEPT
                               !.reports = @ \cup {<<"read", consumer.position>>}]
         ELSE /\ consumer.position < Len(transport)
              /\ consumer' = [consumer EXCEPT
                    !.messages = Append(@, consumer.position),
                    !.position = @ + 1,
                    !.pc = IF Len(consumer.messages) + 1 >= consumer.batchSize
                           THEN "batch" ELSE "select"]
    /\ UNCHANGED <<aggVars, now, nextUuid, ucVars>>

\* StartBatch: the buffer is full, processBatch and empty it
BatchProcess ==
    /\ consumer.pc = "batch"
    /\ \E dbFails \in [1..Len(consumer.messages) -> BOOLEAN], commitFails \in BOOLEAN :
       \E calls \in {BatchCalls(consumer.messages, dbFails, Len(consumer.messages))} :
         consumer' = [processBatch(consumer, calls, commitFails)
                         EXCEPT !.pc = "select", !.messages = <<>>]
    /\ UNCHANGED <<aggVars, now, nextUuid, ucVars>>

NextBatch ==
    \/ ContextCancel
    \/ BatchReturn
    \/ BatchFetch
    \/ BatchProcess

SpecBatch == InitBatch /\ [][NextBatch]_vars

\* the offsets a sequence of processMessage calls was made for
HandledOffsets(handled) == {handled[i].offset : i \in 1..Len(handled)}

\* every fetched message is in the buffer or was processed, never both and
\* never twice; what was handed to CommitMessages is what succeeded
BatchProcessedOnce ==
    LET fetched  == 0..(consumer.position - 1)
        buffered == {consumer.messages[i] : i \in 1..Len(consumer.messages)}
    IN  /\ \A i, j \in 1..Len(consumer.handled) :
              consumer.handled[i].offset = consumer.handled[j].offset => i = j
        /\ HandledOffsets(consumer.handled) \cup buffered = fetched
        /\ HandledOffsets(consumer.handled) \cap buffered = {}
        /\ consumer.pc = "returned" => HandledOffsets(consumer.handled) = fetched
        /\ consumer.commits =
              {consumer.handled[i].offset :
                  i \in {j \in 1..Len(consumer.handled) :
                            consumer.handled[j].err = NoError}}
        /\ consumer.committed \subseteq consumer.commits

\* C39: every message StartBatch fetched is handed to processing exactly
\* once, when the buffer reaches batchSize or when the context is cancelled,
\* and only the messages of a batch whose processing succeeded are committed.
C39_BatchProcessedOnceAndCommitted ==
    /\ []BatchProcessedOnce
    /\ [][consumer'.handled # consumer.handled =>
            /\ \/ Len(consumer.messages) >= consumer.batchSize
               \/ consumer.ctxDone /\ consumer'.pc = "returned"
            /\ HandledOffsets(consumer'.handled) \ HandledOffsets(consumer.handled)
                  = {consumer.messages[i] : i \in 1..Len(consumer.messages)}]_vars

\* a batch of two was processed, one message failed and only the other was
\* committed; the third message was processed at the cancellation
C39_Witness ==
    /\ consumer.pc = "returned"
    /\ consumer.batchSize = 2
    /\ Len(consumer.handled) = 3
    /\ consumer.handled[1].err # NoError
    /\ consumer.handled[2].err = NoError
    /\ consumer.committed = {1, 2}

\* a stored row without its status and its update time
FrameOfRow(row) == [row EXCEPT !.Status = "", !.UpdatedAt = 0]

\* the order as read back has the fields the execution started from
SameFrame(got, o) ==
    /\ got.ID = o.ID
    /\ got.CustomerID = o.CustomerID
    /\ got.Email = o.Email
    /\ got.TotalAmount = o.TotalAmount
    /\ got.Currency = o.Currency
    /\ got.CreatedAt = o.CreatedAt
    /\ got.Items = o.Items
    /\ got.ShippingAddress = o.ShippingAddress
    /\ got.BillingAddress = o.BillingAddress

\* C37: a successful UpdateOrderStatus changes only the status and the
\* update time of the stored order: its id, customer id, e-mail, total
\* amount, currency, creation time, items and addresses are the same before
\* and after the call.
C37_UpdateChangesStatusOnly ==
    [][\A p \in Procs :
        /\ (proc[p].pc = "update_persist" /\ proc'[p].pc = "update_event")
              => /\ DOMAIN store' = DOMAIN store
                 /\ \A id \in DOMAIN store :
                       FrameOfRow(store'[id]) = FrameOfRow(store[id])
                 /\ \A id \in DOMAIN store \ {proc[p].order.ID} :
                       store'[id] = store[id]
                 /\ store'[proc[p].order.ID].Status = proc[p].req.NewStatus
        /\ (proc[p].pc = "update_publish" /\ proc'[p].pc = "idle")
              => /\ proc[p].order.ID \in DOMAIN store'
                 /\ SameFrame(OrderOfRow(proc[p].order.ID, store'[proc[p].order.ID]),
                              proc[p].order)]_vars

\* an update to shipped returned and the stored order is shipped
C37_Witness ==
    /\ result.uc = "UpdateOrderStatus"
    /\ result.err = NoError
    /\ result.newStatus = OrderStatusShipped
    /\ result.orderID \in DOMAIN store
    /\ store[result.orderID].Status = OrderStatusShipped
    /\ store[result.orderID].UpdatedAt > LaterTime

\* the event types UpdateOrderStatus publishes
StatusChangeEventTypes ==
    {"order.confirmed", "order.status_changed", "order.shipped", "order.delivered",
     "order.refunded", "order.cancelled"}

\* the messages on the topic that carry the event type for the order
PublishedFor(orderID, eventType) ==
    {i \in 1..Len(transport) :
        /\ transport[i].Value.OrderID = orderID
        /\ transport[i].Value.EventType = eventType}

\* C34: for a given order each status-change event type is published at
\* most once, however concurrent UpdateOrderStatus executions on the order
\* interleave.
C34_EachStatusEventOnce ==
    \A orderID \in DOMAIN store, eventType \in StatusChangeEventTypes :
        Cardinality(PublishedFor(orderID, eventType)) <= 1

\* a valid order of two or more items whose total is the sum of their totals
ValidWithSeveralItems(o) ==
    /\ Len(o.Items) >= 2
    /\ Validate(o) = NoError
    /\ o.TotalAmount = SumTotals(o.Items)

\* C35: Create of a valid order with two or more items whose header total
\* is the sum of its item totals commits: the deferred total check passes
\* for every queued version of the orders row, the intermediate totals
\* written after each item included.
C35_SeveralItemsCommit ==
    \A p \in Procs :
        ( /\ proc[p].pc = "repo_create"
          /\ proc[p].req.done = CreateStatements(proc[p].order)
          /\ ValidWithSeveralItems(proc[p].order) )
            => CreateTotalCheckPasses(proc[p].order)

====
